---- MODULE Spec2Model ----
\* Verification model of the Financial Times scraper (Klirk/scraper_news):
\* FTScraper.save_articles_to_db over the articles table,
\* FTScraper.scrape_single_page and scrape_articles_with_pagination over
\* listing pages, FTScraper.init_browser and close_browser,
\* FTScraper.run_scraping, run_initial_scraping and run_hourly_scraping,
\* and ScrapingScheduler.start with run_scraping_job and its task pool.
EXTENDS Integers, Sequences, FiniteSets, TLC

----------------------------------------------------------------------------
\* Bounds of the model

\* longest run of rows raising a low-level error placed in front of a batch
MaxBadRun == 6
\* longest batch of freely chosen articles
MaxTail == 2
\* environment failures (failing commit, failing rollback) injected per call
MaxFaults == 1
\* largest max_pages a walk is started with
MaxPages == 5
\* latest reading of the clock, in hours after the start of the model
MaxClock == 1
\* most items (li.o-teaser-collection__item) on a listing page scraped alone
MaxItems == 3
\* largest max_retries init_browser is called with
MaxRetries == 6
\* runs of run_scraping in one process
MaxRuns == 2
\* listing pages the site serves; the pages after them have no list
SitePages == 1
\* most article links get_article_links returns to a job
MaxArticles == 3
\* largest MAX_CONCURRENT_REQUESTS a scheduler is constructed with
MaxConcurrent == 2
\* times the interval trigger of the recurring job fires
MaxFires == 2
\* largest number of days run_scraping_job and run_manual_scraping are
\* called with
MaxDaysArg == 2
\* most article links of the job whose tasks are followed to their end
MaxQueue == 2
\* runs started through run_scraping, run_initial_scraping and
\* run_hourly_scraping together in one process
MaxEntries == 1
\* longest window, in hours and in days, a time filter is called with
MaxWindow == 2

----------------------------------------------------------------------------
\* Values of Python dictionaries and columns

\* a key that is absent from the dictionary
Missing == "<missing>"
\* the Python value None / SQL NULL
None == "<None>"

\* FTScraper.base_url
base_url == "https://www.ft.com"

\* urllib.parse.urljoin(base_url, href) for the hrefs of the model: an href
\* that carries a scheme replaces the base, a path is appended to the host
AbsoluteHrefs == {"https://www.ft.com/content/b"}
\* the None that get('href') gives for a link without href
NoHref == "<no href>"
urljoin(base, href) ==
    IF href = NoHref THEN base
    ELSE IF href \in AbsoluteHrefs THEN href ELSE base \o href

----------------------------------------------------------------------------
\* The time filters: published_at and the clock are integers counted in hours

\* a filter that takes hours_limit for a number of days
mut__is_article_recent(published_at, hours_limit, t) ==
    published_at >= t - hours_limit * 24

\* FTScraper._is_article_recent(published_at, hours_limit) read at clock t
_is_article_recent(published_at, hours_limit, t) == published_at >= t - hours_limit

\* a filter that rejects an article published exactly at the limit
mut__is_article_within_days(published_at, days_limit, t) ==
    published_at > t - days_limit * 24

\* FTScraper._is_article_within_days(published_at, days_limit) read at clock t
HoursPerDay == 24
_is_article_within_days(published_at, days_limit, t) ==
    published_at >= t - days_limit * HoursPerDay

\* the time_filter_func values passed by the run_* methods: no filter, the
\* last hour, the last 30 days
NoFilter == "none"
HourlyFilter == "recent_1"
DaysFilter == "within_days_30"
time_filter_func(f, published_at, t) ==
    CASE f = HourlyFilter -> _is_article_recent(published_at, 1, t)
      [] f = DaysFilter -> _is_article_within_days(published_at, 30, t)
      [] OTHER -> TRUE

----------------------------------------------------------------------------
\* Listing items (li.o-teaser-collection__item) and their extraction

\* the title attribute of a <time> element: a text in the format
\* "%B %d %Y %I:%M %p" that denotes the hour d, or a text strptime rejects
DateTitle(d) == [parsable |-> TRUE, date |-> d]
BadDate == [parsable |-> FALSE, date |-> 0]
\* no <time> element, or one without title attribute
NoTimeTitle == [absent |-> TRUE]
\* an element that find() does not find
Absent == "<absent>"
\* the None that _extract_article_data returns in place of a dictionary
NoArticle == [none |-> TRUE]

\* FTScraper._parse_publish_date: the parsed date, or the clock on ValueError
_parse_publish_date(date_str, t) == IF date_str.parsable THEN date_str.date ELSE t

\* a parser that falls back to a date long ago
mut_PublishedAt(el, t) ==
    IF el.time_title # NoTimeTitle
      THEN (IF el.time_title.parsable THEN el.time_title.date ELSE 0 - 100000)
      ELSE 0 - 100000

\* a teaser element: premium label, heading link (text and href), standfirst
\* link text, title attribute of the time element
Teaser(premium, heading, href, standfirst, time_title) ==
    [premium |-> premium, heading |-> heading, href |-> href,
     standfirst |-> standfirst, time_title |-> time_title]

\* the published_at that _extract_article_data computes for an element
PublishedAt(el, t) ==
    IF el.time_title # NoTimeTitle THEN _parse_publish_date(el.time_title, t) ELSE t

\* an extraction that keeps the elements with a premium label
mut__extract_article_data(el, f, t) ==
    IF el.heading = Absent THEN NoArticle
    ELSE IF f # NoFilter /\ ~time_filter_func(f, PublishedAt(el, t), t) THEN NoArticle
    ELSE [url |-> urljoin(base_url, el.href),
          title |-> el.heading,
          content |-> IF el.standfirst # Absent THEN el.standfirst ELSE "",
          published_at |-> PublishedAt(el, t),
          extra |-> FALSE]

\* FTScraper._extract_article_data: None for a premium element, an element
\* without heading link, or one the time filter rejects; the dictionary
\* otherwise (content is "" when there is no standfirst link)
_extract_article_data(el, f, t) ==
    IF el.premium THEN NoArticle
    ELSE IF el.heading = Absent THEN NoArticle
    ELSE IF f # NoFilter /\ ~time_filter_func(f, PublishedAt(el, t), t) THEN NoArticle
    ELSE [url |-> urljoin(base_url, el.href),
          title |-> el.heading,
          content |-> IF el.standfirst # Absent THEN el.standfirst ELSE "",
          published_at |-> PublishedAt(el, t),
          extra |-> FALSE]

----------------------------------------------------------------------------
\* The articles table (app/models/models.py) and the batches saved into it

\* An article dictionary handed to save_articles_to_db has the fields url,
\* title, content and published_at; extra says that it has a key that
\* Article(**article_data) does not accept.

\* teasers of the listing page the saved dictionaries are extracted from
TeaserA == Teaser(FALSE, "Title A", "/content/a", "Summary A", DateTitle(0))
TeaserNoStandfirst == Teaser(FALSE, "Title B", "https://www.ft.com/content/b", Absent, DateTitle(0))

ArtA == _extract_article_data(TeaserA, NoFilter, 0)
ArtA2 == [ArtA EXCEPT !.title = "Title A (updated)"]
ArtNoStandfirst == _extract_article_data(TeaserNoStandfirst, NoFilter, 0)
ArtNoContentKey == [ArtNoStandfirst EXCEPT !.content = Missing]
ArtNullUrl == [ArtNoStandfirst EXCEPT !.url = None]
ArtNullTitle == [ArtNoStandfirst EXCEPT !.title = None]
ArtBad == [ArtNoStandfirst EXCEPT !.extra = TRUE]

ArticleUniverse ==
    {ArtA, ArtA2, ArtNoStandfirst, ArtNoContentKey, ArtNullUrl, ArtNullTitle,
     ArtBad}

\* sequences over S of length at most n
SeqUpTo(S, n) == UNION {[1..k -> S] : k \in 0..n}

\* a run of k rows that raise a low-level error
BadRun(k) == [j \in 1..k |-> ArtBad]

\* the batches with the article whose title is None: alone, and in front of
\* or behind one article
NullTitleBatches ==
    {<<ArtNullTitle>>}
        \cup {<<ArtNullTitle, a>> : a \in ArticleUniverse}
        \cup {<<a, ArtNullTitle>> : a \in ArticleUniverse}

\* the batches of the model: the short batches of articles with a title,
\* the batches with the article whose title is None, and the runs of failing
\* rows followed by one article
Batches ==
    SeqUpTo(ArticleUniverse \ {ArtNullTitle}, MaxTail)
        \cup NullTitleBatches
        \cup {BadRun(k) \o <<a>> : k \in 1..MaxBadRun, a \in ArticleUniverse}

\* line 297: all(key in article_data for key in ['url', 'title', 'content'])
HasRequiredKeys(a) == a.url # Missing /\ a.title # Missing /\ a.content # Missing

\* line 302: Article(**article_data) raises TypeError for an unknown key
ConstructorRaises(a) == a.extra

\* nullable=False on the columns url, title, content
NotNullViolation(a) == a.url = None \/ a.title = None \/ a.content = None

\* line 314: article_data.get('title', 'Unknown')[:50] in the handler of
\* IntegrityError raises TypeError when the title is None
TitleSliceRaises(a) == a.title = None

\* the table without its unique constraint
mut_UniqueViolation(rows, a) == FALSE

\* UniqueConstraint("url", name="uq_article_url")
UniqueViolation(rows, a) == \E k \in 1..Len(rows) : rows[k].url = a.url

\* the row that a committed insert of a adds: id is the primary key
Row(rows, a) ==
    [id |-> Len(rows) + 1, url |-> a.url, title |-> a.title,
     content |-> a.content, published_at |-> a.published_at]

\* a rollback that merges the rejected article into the row of its URL
mut_Rollback(rows, a) ==
    [k \in 1..Len(rows) |->
        IF rows[k].url = a.url
          THEN [rows[k] EXCEPT !.title = a.title, !.content = a.content]
          ELSE rows[k]]
\* line 313, session.rollback(): the pending insert of a is dropped and the
\* table is what it was
Rollback(rows, a) == rows

\* the URLs held by the table
Urls(rows) == {rows[k].url : k \in 1..Len(rows)}

----------------------------------------------------------------------------
\* Listing pages served to scrape_articles_with_pagination

\* published in the hour the model starts
TFresh == Teaser(FALSE, "Title A", "/content/a", "Summary A", DateTitle(0))
\* published one hour before: inside the last hour at clock 0, outside at 1
TEdge == Teaser(FALSE, "Title C", "/content/c", "Summary C", DateTitle(0 - 1))
\* published five hours before: outside the last hour, inside the 30 days
TOld == Teaser(FALSE, "Title D", "/content/d", "Summary D", DateTitle(0 - 5))
\* published 31 days before: outside both windows
TAncient == Teaser(FALSE, "Title E", "/content/e", "Summary E", DateTitle(0 - 31 * HoursPerDay))

\* the contents of ul.o-teaser-collection__list a page may have
WalkPages ==
    {<<>>, <<TFresh>>, <<TOld>>, <<TFresh, TOld>>, <<TOld, TAncient>>}

\* items of a listing page scraped alone: a premium teaser, an element without
\* heading link, a second teaser with the URL of TFresh, a heading link
\* without href, a teaser without time element
TPremium == Teaser(TRUE, "Title P", "/content/p", "Summary P", DateTitle(0))
TNoHeading == Teaser(FALSE, Absent, NoHref, "Summary H", DateTitle(0))
TFreshAgain == Teaser(FALSE, "Title A again", "/content/a", "Summary A again", DateTitle(0))
TNoHref == Teaser(FALSE, "Title N", NoHref, Absent, NoTimeTitle)
PageTeasers == {TFresh, TFreshAgain, TEdge, TOld, TPremium, TNoHeading, TNoHref}
SinglePages == SeqUpTo(PageTeasers, MaxItems)

\* the filters a walk may be started with
TimeFilters == {NoFilter, HourlyFilter, DaysFilter}

\* lines 208-216 of scrape_single_page: the dictionaries of the elements for
\* which _extract_article_data returns one, in page order; ts[k] is the clock
\* read while element k is extracted
RECURSIVE ExtractFrom(_, _, _, _)
ExtractFrom(article_items, f, ts, k) ==
    IF k > Len(article_items) THEN <<>>
    ELSE LET article_data == _extract_article_data(article_items[k], f, ts[k])
         IN  (IF article_data # NoArticle THEN <<article_data>> ELSE <<>>)
                 \o ExtractFrom(article_items, f, ts, k + 1)

\* the clock readings of one page: they start at t0 and never go back
ClockReadings(n, t0) ==
    {ts \in [1..n -> t0..MaxClock] : \A k \in 1..(n - 1) : ts[k] <= ts[k + 1]}

----------------------------------------------------------------------------
\* State

VARIABLES
    db,             \* rows of the articles table, in insertion order
    save_pc,        \* position of save_articles_to_db
    articles_data,  \* its argument
    attempt,        \* for attempt in range(max_retries)
    i,              \* position of the pass in articles_data (1-based)
    saved_count,
    failed_count,
    save_result,    \* the value returned by the last call
    db0,            \* the table when the call started
    faults,         \* environment failures injected into the call
    session_errors, \* passes of the call ended by a session-level failure
    aborted,        \* the call left a pass at failed_count > 5
    repeated,       \* the call repeats the batch of the call before it, which
                    \* met no environment failure
    error_run,      \* low-level save errors of the call since its last
                    \* committed insert
    walk_pc,        \* position of scrape_articles_with_pagination
    max_pages,      \* its arguments
    time_filter,
    page_num,
    no_articles_count,
    all_articles,
    page_attempt,   \* for attempt in range(max_retries) of scrape_single_page
    page_articles,  \* the list scrape_single_page returned for page_num
    walk_result,    \* the list the last walk returned
    now,            \* the clock, as last read
    fetched,        \* the page numbers page.goto was called for, in order
    raw_page,       \* the elements of the page last parsed
    page_results,   \* what scrape_single_page returned for pages 1, 2, ...
    evaluated,      \* pages whose result went through the stop conditions
    failed_run,     \* consecutive pages, up to the last one evaluated, that
                    \* failed on every attempt of scrape_single_page
    crossed,        \* first page whose last element the time filter rejected
    stop_reason,    \* why the walk left its loop
    read_at,        \* the clock readings at the elements of raw_page, until
                    \* the page is evaluated
    page_retries,   \* max_retries of the call of scrape_single_page
    page_sleeps,    \* the delays the call has slept, in order
    page_failures,  \* attempts of the call that raised
    list_missing,   \* the call returned at line 202
    browser_pc,     \* position of init_browser
    init_max_retries, \* its argument
    init_attempt,   \* for attempt in range(max_retries)
    init_sleeps,    \* the delays it has slept, in order
    init_failures,  \* the calls its failed attempts raised in, in order
    browser,        \* self.browser: "none", "open" or "closed"
    close_outcome,  \* how the last close_browser since init_browser ended
    orphaned,       \* browsers the last init_browser left open and without a
                    \* reference: self.browser was assigned another one
    run_pc,         \* position of run_scraping
    is_first,       \* the value is_first_run returned to it
    count_failed,   \* the count query of is_first_run raised
    stored_at_start,\* the number of stored articles when the run started
    runs,           \* runs started so far
    run_kind,       \* the method the run was started by
    closes,         \* calls of close_browser the run has made
    sched_pc,       \* position of ScrapingScheduler.start
    is_initial_run, \* self.is_initial_run of the scheduler of each job
    max_concurrent, \* self.max_concurrent of the schedulers of the process, as
                    \* a sequence of one number; <<>> while no scheduler is made
    running,        \* self.scheduler.running: the recurring job is added
                    \* and the scheduler started and not shut down
    in_flight,      \* executions in progress that start() or the recurring
                    \* job made
    job_pc,         \* position of run_scraping_job, for each job
    days_back,      \* its days_back
    stats,          \* its stats dictionary
    task_pc,        \* position of each of its process_article tasks
    outcome,        \* how each of its tasks ended
    semaphore,      \* the value of its asyncio.Semaphore
    job_results,    \* how the executions made by start() and the recurring
                    \* job ended, in order
    jobs_started,   \* executions start() and the recurring job made so far
    fires,          \* times the interval trigger has fired
    skips,          \* fires that started no execution
    link_urls,      \* the URLs of the links of each job, one for each task
    job_store,      \* the URLs ArticleProcessor has stored
    stored_before,  \* job_store when the last execution made by start() or
                    \* the recurring job started
    filter_call,    \* the last call of a time filter made on its own: the
                    \* arguments, the clock it read and the value it returned
    extract_call    \* the last call of _extract_article_data made on its
                    \* own: the element, the filter, the clock and the result

save_vars == <<db, save_pc, articles_data, attempt, i, saved_count, failed_count,
               save_result, db0, faults, session_errors, aborted, repeated,
               error_run>>

walk_vars == <<walk_pc, max_pages, time_filter, page_num, no_articles_count,
               all_articles, page_attempt, page_articles, walk_result, now,
               fetched, raw_page, page_results, evaluated, failed_run, crossed, stop_reason,
               read_at, page_retries, page_sleeps, page_failures, list_missing>>

browser_vars == <<browser_pc, init_max_retries, init_attempt, init_sleeps,
                  init_failures, browser, close_outcome, orphaned>>

run_vars == <<run_pc, is_first, count_failed, stored_at_start, runs, run_kind,
              closes>>

job_vars == <<sched_pc, is_initial_run, max_concurrent, running, in_flight,
              job_pc, days_back, stats, task_pc, outcome, semaphore, job_results,
              jobs_started, fires, skips, link_urls, job_store, stored_before>>

filter_vars == <<filter_call, extract_call>>

\* the variables neither save_articles_to_db nor the walk touches
env_vars == <<browser_vars, run_vars, job_vars, filter_vars>>

vars == <<save_vars, walk_vars, browser_vars, run_vars, job_vars, filter_vars>>

\* the executions of run_scraping_job the model follows, each on a scheduler
\* of its own: the one made by start() or by the recurring job of its
\* scheduler, the one made by run_manual_scraping, and the one made by a
\* call of run_scraping_job on a scheduler that start() is not called on
StartJob == "start"
ManualJob == "manual"
DirectJob == "direct"
Jobs == {StartJob, ManualJob, DirectJob}

\* default of the parameter max_retries of save_articles_to_db
max_retries == 3
\* line 323: if failed_count > 5
FailedLimit == 5

----------------------------------------------------------------------------
\* The state after FTScraper() is constructed, on an empty table

Init ==
    /\ db = <<>>
    /\ save_pc = "idle"
    /\ articles_data = <<>>
    /\ attempt = 0
    /\ i = 0
    /\ saved_count = 0
    /\ failed_count = 0
    /\ save_result = 0
    /\ db0 = <<>>
    /\ faults = 0
    /\ session_errors = 0
    /\ aborted = FALSE
    /\ repeated = FALSE
    /\ error_run = 0
    /\ walk_pc = "idle"
    /\ max_pages = 0
    /\ time_filter = NoFilter
    /\ page_num = 0
    /\ no_articles_count = 0
    /\ all_articles = <<>>
    /\ page_attempt = 0
    /\ page_articles = <<>>
    /\ walk_result = <<>>
    /\ now = 0
    /\ fetched = <<>>
    /\ raw_page = <<>>
    /\ page_results = <<>>
    /\ evaluated = 0
    /\ failed_run = 0
    /\ crossed = 0
    /\ stop_reason = "none"
    /\ read_at = <<>>
    /\ page_retries = 0
    /\ page_sleeps = <<>>
    /\ page_failures = 0
    /\ list_missing = FALSE
    /\ browser_pc = "idle"
    /\ init_max_retries = 0
    /\ init_attempt = 0
    /\ init_sleeps = <<>>
    /\ init_failures = <<>>
    /\ browser = "none"
    /\ close_outcome = "none"
    /\ orphaned = 0
    /\ run_pc = "idle"
    /\ is_first = FALSE
    /\ count_failed = FALSE
    /\ stored_at_start = 0
    /\ runs = 0
    /\ run_kind = "none"
    /\ closes = 0
    /\ sched_pc = "new"
    /\ is_initial_run = [j \in Jobs |-> TRUE]
    /\ max_concurrent = <<>>
    /\ running = FALSE
    /\ in_flight = 0
    /\ job_pc = [j \in Jobs |-> "idle"]
    /\ days_back = [j \in Jobs |-> 0]
    /\ stats = [j \in Jobs |->
                  [found |-> 0, scraped |-> 0, saved |-> 0, skipped |-> 0,
                   errors |-> 0]]
    /\ task_pc = [j \in Jobs |-> <<>>]
    /\ outcome = [j \in Jobs |-> <<>>]
    /\ semaphore = [j \in Jobs |-> 0]
    /\ job_results = <<>>
    /\ jobs_started = 0
    /\ fires = 0
    /\ skips = 0
    /\ link_urls = [j \in Jobs |-> <<>>]
    /\ job_store = {}
    /\ stored_before = {}
    /\ filter_call = <<>>
    /\ extract_call = <<>>

----------------------------------------------------------------------------
\* FTScraper.save_articles_to_db

\* lines 280-287: entry; an empty batch returns 0 at once
Enter(batch, again) ==
    /\ articles_data' = batch
    /\ repeated' = again
    /\ db0' = db
    /\ saved_count' = 0
    /\ failed_count' = 0
    /\ attempt' = 0
    /\ i' = 0
    /\ faults' = 0
    /\ session_errors' = 0
    /\ aborted' = FALSE
    /\ error_run' = 0
    /\ IF batch = <<>>
         THEN save_pc' = "returned" /\ save_result' = 0
         ELSE save_pc' = "session" /\ UNCHANGED save_result
    /\ UNCHANGED db

\* the first call, or a later call on a batch of the caller's choice
save_articles_to_db ==
    /\ save_pc \in {"idle", "returned"}
    /\ \E batch \in Batches : Enter(batch, FALSE)
    /\ UNCHANGED <<walk_vars, env_vars>>

\* a second call on the batch that was just saved without environment failure
save_articles_to_db_again ==
    /\ save_pc = "returned"
    /\ faults = 0
    /\ Enter(articles_data, TRUE)
    /\ UNCHANGED <<walk_vars, env_vars>>

\* a pass that starts its count again
mut_OpenSession ==
    /\ UNCHANGED <<walk_vars, env_vars>>
    /\ save_pc = "session"
    /\ save_pc' = "loop"
    /\ i' = 1
    /\ saved_count' = 0
    /\ UNCHANGED <<db, articles_data, attempt, failed_count,
                   save_result, db0, faults, session_errors, aborted, repeated>>
    /\ UNCHANGED error_run

\* line 291-292: async for session in get_session(): a pass over the batch starts
OpenSession ==
    /\ UNCHANGED <<walk_vars, env_vars>>
    /\ save_pc = "session"
    /\ save_pc' = "loop"
    /\ i' = 1
    /\ UNCHANGED <<db, articles_data, attempt, saved_count, failed_count,
                   save_result, db0, faults, session_errors, aborted, repeated>>
    /\ UNCHANGED error_run

\* the article the pass is at
Current == articles_data[i]
InLoop == save_pc = "loop" /\ i <= Len(articles_data)

\* the commit of Current raises an error that is not an IntegrityError: the
\* constructor rejects the dictionary, or the environment fails (fault)
LowLevelError(fault) == ConstructorRaises(Current) \/ fault

\* the commit of Current raises IntegrityError
IntegrityError(rows, a) == NotNullViolation(a) \/ UniqueViolation(rows, a)

\* lines 331-336: an exception that leaves the pass reaches the outer
\* handler: the next attempt follows, if there is one
OuterHandler ==
    /\ session_errors' = session_errors + 1
    /\ IF attempt < max_retries - 1
         THEN save_pc' = "session" /\ attempt' = attempt + 1
         ELSE save_pc' = "return" /\ UNCHANGED attempt

\* lines 297-299: a required key is missing: continue
SkipIncomplete ==
    /\ UNCHANGED <<walk_vars, env_vars>>
    /\ InLoop
    /\ ~HasRequiredKeys(Current)
    /\ i' = i + 1
    /\ UNCHANGED <<db, save_pc, articles_data, attempt, saved_count, failed_count,
                   save_result, db0, faults, session_errors, aborted, repeated>>
    /\ UNCHANGED error_run

\* lines 302-309: the insert is committed
SaveArticle ==
    /\ UNCHANGED <<walk_vars, env_vars>>
    /\ InLoop
    /\ HasRequiredKeys(Current)
    /\ ~LowLevelError(FALSE)
    /\ ~IntegrityError(db, Current)
    /\ db' = Append(db, Row(db, Current))
    /\ saved_count' = saved_count + 1
    /\ i' = i + 1
    /\ UNCHANGED <<save_pc, articles_data, attempt, failed_count, save_result,
                   db0, faults, session_errors, aborted, repeated>>
    /\ error_run' = 0

\* a duplicate that is counted as saved
mut_SkipIntegrityError ==
    /\ UNCHANGED <<walk_vars, env_vars>>
    /\ InLoop
    /\ HasRequiredKeys(Current)
    /\ ~LowLevelError(FALSE)
    /\ IntegrityError(db, Current)
    /\ db' = Rollback(db, Current)
    /\ IF TitleSliceRaises(Current)
         THEN OuterHandler /\ UNCHANGED <<i, saved_count>>
         ELSE /\ i' = i + 1
              /\ saved_count' = saved_count + 1
              /\ UNCHANGED <<save_pc, attempt, session_errors>>
    /\ UNCHANGED <<articles_data, failed_count, save_result, db0, faults,
                   aborted, repeated>>
    /\ UNCHANGED error_run

\* lines 311-315: IntegrityError: rollback, log, continue. The message of
\* line 314 slices the title: for a title None the handler raises TypeError,
\* which no handler of the pass catches (it is raised inside an except
\* block) and which ends the pass in the outer handler of line 331
SkipIntegrityError ==
    /\ UNCHANGED <<walk_vars, env_vars>>
    /\ InLoop
    /\ HasRequiredKeys(Current)
    /\ ~LowLevelError(FALSE)
    /\ IntegrityError(db, Current)
    /\ db' = Rollback(db, Current)
    /\ IF TitleSliceRaises(Current)
         THEN OuterHandler /\ UNCHANGED i
         ELSE /\ i' = i + 1
              /\ UNCHANGED <<save_pc, attempt, session_errors>>
    /\ UNCHANGED <<articles_data, saved_count, failed_count, save_result, db0,
                   faults, aborted, repeated>>
    /\ UNCHANGED error_run

\* lines 317-326: any other exception: rollback, count it, break when more
\* than FailedLimit were counted, continue otherwise
SaveError ==
    /\ UNCHANGED <<walk_vars, env_vars>>
    /\ InLoop
    /\ HasRequiredKeys(Current)
    /\ \E fault \in BOOLEAN :
         /\ fault => faults < MaxFaults /\ ~ConstructorRaises(Current)
         /\ LowLevelError(fault)
         /\ faults' = IF fault THEN faults + 1 ELSE faults
    /\ failed_count' = failed_count + 1
    /\ IF failed_count' > FailedLimit
         THEN save_pc' = "end_pass" /\ aborted' = TRUE /\ UNCHANGED i
         ELSE i' = i + 1 /\ UNCHANGED <<save_pc, aborted>>
    /\ UNCHANGED <<db, articles_data, attempt, saved_count, save_result, db0,
                   session_errors, repeated>>
    /\ error_run' = error_run + 1

\* the exception of a session-level failure of the environment reaches the
\* outer handler
OuterExcept ==
    /\ faults' = faults + 1
    /\ OuterHandler

\* lines 313, 318: session.rollback() raises inside a handler, with or without
\* a failing commit before it
RollbackFails ==
    /\ UNCHANGED <<walk_vars, env_vars>>
    /\ InLoop
    /\ HasRequiredKeys(Current)
    /\ faults < MaxFaults
    /\ OuterExcept
    /\ UNCHANGED <<db, articles_data, i, saved_count, failed_count, save_result,
                   db0, aborted, repeated>>
    /\ UNCHANGED error_run

\* lines 328-329 and 289: the pass is over (the batch is exhausted, or the
\* break of line 325): break leaves the async for, and the for loop over the
\* attempts goes on
EndPass ==
    /\ UNCHANGED <<walk_vars, env_vars>>
    /\ \/ save_pc = "loop" /\ i > Len(articles_data)
       \/ save_pc = "end_pass"
    /\ IF attempt < max_retries - 1
         THEN save_pc' = "session" /\ attempt' = attempt + 1
         ELSE save_pc' = "return" /\ UNCHANGED attempt
    /\ UNCHANGED <<db, articles_data, i, saved_count, failed_count, save_result,
                   db0, faults, session_errors, aborted, repeated>>
    /\ UNCHANGED error_run

\* lines 338-342: return saved_count
Return ==
    /\ UNCHANGED <<walk_vars, env_vars>>
    /\ save_pc = "return"
    /\ save_pc' = "returned"
    /\ save_result' = saved_count
    /\ UNCHANGED <<db, articles_data, attempt, i, saved_count, failed_count,
                   db0, faults, session_errors, aborted, repeated>>
    /\ UNCHANGED error_run

NextSave ==
    \/ save_articles_to_db
    \/ save_articles_to_db_again
    \/ OpenSession
    \/ SkipIncomplete
    \/ SaveArticle
    \/ SkipIntegrityError
    \/ SaveError
    \/ RollbackFails
    \/ EndPass
    \/ Return

SpecSave == Init /\ [][NextSave]_vars

----------------------------------------------------------------------------
\* FTScraper.scrape_single_page and FTScraper.scrape_articles_with_pagination

\* FTScraper.world_url
world_url == "https://www.ft.com/world"
\* default of the parameter max_retries of scrape_single_page
page_max_retries == 3
\* line 250: if no_articles_count >= 3
EmptyPagesLimit == 3

\* line 225: the cap of the backoff of scrape_single_page, the one cap the
\* scraper has
BackoffCap == 10

\* the smaller of two numbers
Min(a, b) == IF a <= b THEN a ELSE b

\* a backoff without cap
mut_PageDelay(a) == 2 ^ a
\* line 225: delay = min(2 ** attempt, 10)
PageDelay(a) == Min(2 ^ a, BackoffCap)

\* line 167: a call of scrape_single_page with max_retries mr starts
PageCallStarts(mr) ==
    /\ page_retries' = mr
    /\ page_sleeps' = <<>>
    /\ page_failures' = 0
    /\ list_missing' = FALSE

\* the walk has looked at what the call returned
PageEvaluated ==
    /\ read_at' = <<>>
    /\ page_sleeps' = <<>>
    /\ page_failures' = 0
    /\ list_missing' = FALSE
    /\ UNCHANGED page_retries

\* lines 170-173: the URL of a listing page
PageUrl(n) == IF n = 1 THEN world_url ELSE world_url \o "?page=" \o ToString(n)

\* line 242, range(1, max_pages + 1): there is a page after page n
mut_HasNextPage(n, mp) == n <= mp
HasNextPage(n, mp) == n < mp

\* line 242: the page after page n
mut_NextPageNum(n) == n + 2
NextPageNum(n) == n + 1

\* lines 233-243: entry; the loop body is not run when max_pages < 1
WalkEnter(mp, f) ==
    /\ max_pages' = mp
    /\ time_filter' = f
    /\ IF mp >= 1
         THEN walk_pc' = "scrape" /\ page_num' = 1 /\ stop_reason' = "none"
         ELSE walk_pc' = "return" /\ page_num' = 0 /\ stop_reason' = "bound"
    /\ PageCallStarts(page_max_retries)
    /\ read_at' = <<>>
    /\ all_articles' = <<>>
    /\ no_articles_count' = 0
    /\ page_attempt' = 0
    /\ page_articles' = <<>>
    /\ walk_result' = <<>>
    /\ fetched' = <<>>
    /\ raw_page' = <<>>
    /\ page_results' = <<>>
    /\ evaluated' = 0
    /\ failed_run' = 0
    /\ crossed' = 0
    /\ UNCHANGED now

\* a walk with a page bound and a filter of the caller's choice
scrape_articles_with_pagination ==
    /\ walk_pc \in {"idle", "returned"}
    /\ \E mp \in 0..MaxPages, f \in TimeFilters : WalkEnter(mp, f)
    /\ UNCHANGED <<save_vars, env_vars>>

\* line 179: page.goto(url) for the page the walk is at; the retries of one
\* page are logged once
Goto ==
    fetched' = IF fetched # <<>> /\ fetched[Len(fetched)] = PageUrl(page_num)
                 THEN fetched
                 ELSE Append(fetched, PageUrl(page_num))

\* scrape_single_page hands its list to the walk
PageReturns(list, article_items, ts) ==
    /\ page_articles' = list
    /\ read_at' = ts
    /\ raw_page' = article_items
    /\ page_results' = Append(page_results, list)
    /\ walk_pc' = "evaluate"

\* lines 221-231: an attempt raises (navigation, content): the next attempt
\* follows, and after the last one the page returns []
AttemptFails ==
    /\ walk_pc = "scrape"
    /\ Goto
    /\ page_failures' = page_failures + 1
    /\ IF page_attempt < page_retries - 1
         THEN /\ page_attempt' = page_attempt + 1
              /\ page_sleeps' = Append(page_sleeps, PageDelay(page_attempt))
              /\ UNCHANGED <<walk_pc, page_articles, raw_page, page_results, read_at>>
         ELSE /\ PageReturns(<<>>, <<>>, <<>>)
              /\ UNCHANGED <<page_attempt, page_sleeps>>
    /\ UNCHANGED <<page_retries, list_missing>>
    /\ UNCHANGED <<max_pages, time_filter, page_num, no_articles_count,
                   all_articles, walk_result, now, evaluated, failed_run, crossed, stop_reason>>
    /\ UNCHANGED <<save_vars, env_vars>>

\* lines 199-202: the page has no ul.o-teaser-collection__list: return []
ListNotFound ==
    /\ walk_pc = "scrape"
    /\ Goto
    /\ PageReturns(<<>>, <<>>, <<>>)
    /\ list_missing' = TRUE
    /\ UNCHANGED <<page_retries, page_sleeps, page_failures>>
    /\ UNCHANGED <<max_pages, time_filter, page_num, no_articles_count,
                   all_articles, page_attempt, walk_result, now, evaluated, failed_run,
                   crossed, stop_reason>>
    /\ UNCHANGED <<save_vars, env_vars>>

\* the time filter is active and rejects the last element of the page
LastElementRejected(article_items, f, ts) ==
    /\ f # NoFilter
    /\ article_items # <<>>
    /\ LET el == article_items[Len(article_items)]
           t == ts[Len(article_items)]
       IN  ~time_filter_func(f, PublishedAt(el, t), t)

\* lines 204-219: the page is parsed and its elements are extracted
PageScrapedFrom(pages) ==
    /\ walk_pc = "scrape"
    /\ Goto
    /\ \E article_items \in pages :
        \E ts \in ClockReadings(Len(article_items), now) :
         /\ PageReturns(ExtractFrom(article_items, time_filter, ts, 1), article_items, ts)
         /\ now' = IF article_items = <<>> THEN now ELSE ts[Len(article_items)]
         /\ crossed' = IF crossed = 0 /\ LastElementRejected(article_items, time_filter, ts)
                         THEN page_num ELSE crossed
    /\ UNCHANGED <<max_pages, time_filter, page_num, no_articles_count,
                   all_articles, page_attempt, walk_result, evaluated, failed_run, stop_reason>>
    /\ UNCHANGED <<page_retries, page_sleeps, page_failures, list_missing>>
    /\ UNCHANGED <<save_vars, env_vars>>

\* the pages of a walk
PageScraped == PageScrapedFrom(WalkPages)

\* lines 242 and 266: the pause, then the next page or the end of the range
Advance ==
    IF HasNextPage(page_num, max_pages)
      THEN /\ page_num' = NextPageNum(page_num)
           /\ page_attempt' = 0
           /\ walk_pc' = "scrape"
           /\ UNCHANGED stop_reason
      ELSE /\ walk_pc' = "return"
           /\ stop_reason' = "bound"
           /\ UNCHANGED <<page_num, page_attempt>>

\* line 252 or 263: break
Break(reason) ==
    /\ walk_pc' = "return"
    /\ stop_reason' = reason
    /\ UNCHANGED <<page_num, page_attempt>>

\* lines 221-231 and 245-246: a call of scrape_single_page whose attempts
\* all raised returned [] at line 231; the walk sees it as an empty page, and
\* run is the number of such pages in a row before it
FailedRun(run, failures, retries) ==
    IF failures = retries THEN run + 1 ELSE 0

\* a walk that stops at the fourth empty page
mut_EmptyPage ==
    /\ walk_pc = "evaluate"
    /\ page_articles = <<>>
    /\ no_articles_count' = no_articles_count + 1
    /\ evaluated' = evaluated + 1
    /\ failed_run' = FailedRun(failed_run, page_failures, page_retries)
    /\ IF no_articles_count' > EmptyPagesLimit THEN Break("exhausted") ELSE Advance
    /\ UNCHANGED <<max_pages, time_filter, all_articles, page_articles,
                   walk_result, now, fetched, raw_page, page_results, crossed>>
    /\ PageEvaluated
    /\ UNCHANGED <<save_vars, env_vars>>

\* lines 245-252: the page gave no article
EmptyPage ==
    /\ walk_pc = "evaluate"
    /\ page_articles = <<>>
    /\ no_articles_count' = no_articles_count + 1
    /\ evaluated' = evaluated + 1
    /\ failed_run' = FailedRun(failed_run, page_failures, page_retries)
    /\ IF no_articles_count' >= EmptyPagesLimit THEN Break("exhausted") ELSE Advance
    /\ UNCHANGED <<max_pages, time_filter, all_articles, page_articles,
                   walk_result, now, fetched, raw_page, page_results, crossed>>
    /\ PageEvaluated
    /\ UNCHANGED <<save_vars, env_vars>>

\* a walk that puts the articles of a page before those collected so far
mut_Extend(all, page) == page \o all
\* line 255: all_articles.extend(page_articles)
Extend(all, page) == all \o page

\* a walk that keeps its count of empty pages over a page with articles
mut_NonEmptyPage ==
    /\ walk_pc = "evaluate"
    /\ page_articles # <<>>
    /\ UNCHANGED no_articles_count
    /\ all_articles' = Extend(all_articles, page_articles)
    /\ evaluated' = evaluated + 1
    /\ failed_run' = 0
    /\ \E t \in now..MaxClock :
         /\ now' = IF time_filter # NoFilter THEN t ELSE now
         /\ IF /\ time_filter # NoFilter
               /\ ~time_filter_func(time_filter,
                       page_articles[Len(page_articles)].published_at, t)
              THEN Break("time_limit")
              ELSE IF no_articles_count >= EmptyPagesLimit
                     THEN Break("exhausted") ELSE Advance
    /\ UNCHANGED <<max_pages, time_filter, page_articles, walk_result, fetched,
                   raw_page, page_results, crossed>>
    /\ PageEvaluated
    /\ UNCHANGED <<save_vars, env_vars>>

\* lines 253-263: the page gave articles: the count of empty pages starts
\* again, the articles are collected, and with a time filter the date of the
\* last collected article is put to the filter once more
NonEmptyPage ==
    /\ walk_pc = "evaluate"
    /\ page_articles # <<>>
    /\ no_articles_count' = 0
    /\ all_articles' = Extend(all_articles, page_articles)
    /\ evaluated' = evaluated + 1
    /\ failed_run' = 0
    /\ \E t \in now..MaxClock :
         /\ now' = IF time_filter # NoFilter THEN t ELSE now
         /\ IF /\ time_filter # NoFilter
               /\ ~time_filter_func(time_filter,
                       page_articles[Len(page_articles)].published_at, t)
              THEN Break("time_limit")
              ELSE Advance
    /\ UNCHANGED <<max_pages, time_filter, page_articles, walk_result, fetched,
                   raw_page, page_results, crossed>>
    /\ PageEvaluated
    /\ UNCHANGED <<save_vars, env_vars>>

\* lines 268-269: return all_articles
ReturnWalk ==
    /\ walk_pc = "return"
    /\ walk_pc' = "returned"
    /\ walk_result' = all_articles
    /\ UNCHANGED <<max_pages, time_filter, page_num, no_articles_count,
                   all_articles, page_attempt, page_articles, now, fetched,
                   raw_page, page_results, evaluated, failed_run, crossed, stop_reason,
                   read_at, page_retries, page_sleeps, page_failures, list_missing>>
    /\ UNCHANGED <<save_vars, env_vars>>

NextWalk ==
    \/ scrape_articles_with_pagination
    \/ AttemptFails
    \/ ListNotFound
    \/ PageScraped
    \/ EmptyPage
    \/ NonEmptyPage
    \/ ReturnWalk

SpecWalk == Init /\ [][NextWalk]_vars

----------------------------------------------------------------------------
\* FTScraper.scrape_single_page called for one page

\* lines 165-167 and 231: a call for page n with filter f and max_retries
\* mr; the list it returns is page_articles, and with no attempt to make it
\* returns [] at once
PageEnter(n, f, mr) ==
    /\ walk_pc \in {"idle", "evaluate"}
    /\ page_num' = n
    /\ max_pages' = n
    /\ time_filter' = f
    /\ PageCallStarts(mr)
    /\ IF mr >= 1
         THEN /\ walk_pc' = "scrape"
              /\ page_results' = <<>>
         ELSE /\ walk_pc' = "evaluate"
              /\ page_results' = << <<>> >>
    /\ stop_reason' = "none"
    /\ read_at' = <<>>
    /\ all_articles' = <<>>
    /\ no_articles_count' = 0
    /\ page_attempt' = 0
    /\ page_articles' = <<>>
    /\ walk_result' = <<>>
    /\ fetched' = <<>>
    /\ raw_page' = <<>>
    /\ evaluated' = 0
    /\ failed_run' = 0
    /\ crossed' = 0
    /\ UNCHANGED now
    /\ UNCHANGED <<save_vars, env_vars>>

\* a call with the default max_retries
scrape_single_page ==
    \E n \in 1..2, f \in TimeFilters : PageEnter(n, f, page_max_retries)

\* lines 204-219 on the pages of SinglePages
SinglePageScraped == PageScrapedFrom(SinglePages)

NextPage ==
    \/ scrape_single_page
    \/ AttemptFails
    \/ ListNotFound
    \/ SinglePageScraped

SpecPage == Init /\ [][NextPage]_vars

----------------------------------------------------------------------------
\* FTScraper.scrape_single_page called with a max_retries of the caller's
\* choice

\* the pages the site serves to these calls
RetryPages == {<<>>, <<TFresh>>, <<TOld, TFresh>>}

scrape_single_page_retries ==
    \E n \in 1..2, f \in TimeFilters, mr \in 0..MaxRetries : PageEnter(n, f, mr)

\* lines 204-219 on the pages of RetryPages
RetryPageScraped == PageScrapedFrom(RetryPages)

NextRetry ==
    \/ scrape_single_page_retries
    \/ AttemptFails
    \/ ListNotFound
    \/ RetryPageScraped

SpecRetry == Init /\ [][NextRetry]_vars

----------------------------------------------------------------------------
\* FTScraper.init_browser and FTScraper.close_browser

\* the calls of one attempt that may raise: async_playwright().start(),
\* chromium.launch(), browser.new_context(), context.new_page()
Stages == {"start", "launch", "new_context", "new_page"}
\* the calls made after chromium.launch() has been assigned to self.browser
AfterLaunch == {"new_context", "new_page"}

\* default of the parameter max_retries of init_browser
init_default_retries == 3

\* line 60: await asyncio.sleep(2 ** attempt)
InitDelay(a) == 2 ^ a

\* line 33: self.browser = await playwright.chromium.launch(...): the
\* browser self.browser referred to before loses its only reference, open
\* or not
OrphanedByLaunch(b, n) == IF b = "open" THEN n + 1 ELSE n

\* line 30: the loop is entered
InitEnter(mr) ==
    /\ browser_pc' = "attempt"
    /\ init_max_retries' = mr
    /\ init_attempt' = 0
    /\ init_sleeps' = <<>>
    /\ init_failures' = <<>>
    /\ close_outcome' = "none"
    /\ orphaned' = 0
    /\ UNCHANGED browser

\* a call of init_browser on its own
init_browser ==
    /\ run_pc = "idle"
    /\ browser_pc = "idle"
    /\ \E mr \in 1..MaxRetries : InitEnter(mr)
    /\ UNCHANGED <<save_vars, walk_vars, run_vars, job_vars, filter_vars>>

\* lines 32-55: every call of the attempt succeeds
InitAttemptSucceeds ==
    /\ browser_pc = "attempt"
    /\ browser' = "open"
    /\ orphaned' = OrphanedByLaunch(browser, orphaned)
    /\ browser_pc' = "ready"
    /\ UNCHANGED <<init_max_retries, init_attempt, init_sleeps, init_failures,
                   close_outcome>>
    /\ UNCHANGED <<save_vars, walk_vars, run_vars, job_vars, filter_vars>>

\* an init_browser that starts its attempts again after the last one
mut_InitAttemptFails ==
    /\ browser_pc = "attempt"
    /\ IF init_attempt < init_max_retries - 1
         THEN /\ init_sleeps' = Append(init_sleeps, InitDelay(init_attempt))
              /\ init_failures' = Append(init_failures, "start")
              /\ init_attempt' = init_attempt + 1
         ELSE /\ init_sleeps' = <<>>
              /\ init_failures' = <<>>
              /\ init_attempt' = 0
    /\ UNCHANGED <<browser_pc, browser, orphaned>>
    /\ UNCHANGED <<init_max_retries, close_outcome>>
    /\ UNCHANGED <<save_vars, walk_vars, run_vars, job_vars, filter_vars>>

\* lines 57-63: a call of the attempt raises: sleep and try again, or raise
\* after the last attempt
InitAttemptFails ==
    /\ browser_pc = "attempt"
    /\ \E stage \in Stages :
         /\ init_failures' = Append(init_failures, stage)
         /\ browser' = IF stage \in AfterLaunch THEN "open" ELSE browser
         /\ orphaned' = IF stage \in AfterLaunch
                           THEN OrphanedByLaunch(browser, orphaned)
                           ELSE orphaned
    /\ IF init_attempt < init_max_retries - 1
         THEN /\ init_sleeps' = Append(init_sleeps, InitDelay(init_attempt))
              /\ init_attempt' = init_attempt + 1
              /\ UNCHANGED browser_pc
         ELSE /\ browser_pc' = "raised"
              /\ UNCHANGED <<init_sleeps, init_attempt>>
    /\ UNCHANGED <<init_max_retries, close_outcome>>
    /\ UNCHANGED <<save_vars, walk_vars, run_vars, job_vars, filter_vars>>

\* lines 67-72: how close_browser ends on self.browser b: nothing is done
\* when self.browser is None (line 68), and the exception of
\* self.browser.close() is logged (lines 71-72)
mut_CloseOutcome(b, close_raises) ==
    IF b = "none" THEN "nothing" ELSE IF close_raises THEN "raised" ELSE "closed"
CloseOutcome(b, close_raises) ==
    IF b = "none" THEN "nothing" ELSE IF close_raises THEN "logged" ELSE "closed"

\* lines 65-72: self.browser.close() when self.browser is set, also when it
\* was closed before (self.browser is never set back to None); a close that
\* raises leaves the browser as it was
CloseBrowser ==
    \E close_raises \in BOOLEAN :
      /\ close_outcome' = CloseOutcome(browser, close_raises)
      /\ browser' = IF browser # "none" /\ ~close_raises THEN "closed" ELSE browser
      /\ UNCHANGED orphaned

\* a call of close_browser on its own, while init_browser is not running
close_browser ==
    /\ run_pc = "idle"
    /\ browser_pc \in {"idle", "ready", "raised"}
    /\ CloseBrowser
    /\ browser_pc' = "idle"
    /\ UNCHANGED <<init_max_retries, init_attempt, init_sleeps, init_failures>>
    /\ UNCHANGED <<save_vars, walk_vars, run_vars, job_vars, filter_vars>>

NextBrowser ==
    \/ init_browser
    \/ InitAttemptSucceeds
    \/ InitAttemptFails
    \/ close_browser

SpecBrowser == Init /\ [][NextBrowser]_vars

----------------------------------------------------------------------------
\* FTScraper.is_first_run and FTScraper.run_scraping

\* default of INITIAL_DAYS_BACK, and the days of the window of the first run
INITIAL_DAYS_BACK == 30

\* a check that takes a failed query for a store with articles
mut_is_first_run(rows, query_raises) == IF query_raises THEN FALSE ELSE Len(rows) = 0
\* is_first_run on the table rows: count == 0, and True when the query raises
is_first_run(rows, query_raises) == IF query_raises THEN TRUE ELSE Len(rows) = 0

\* line 360: max_pages of the first run
BulkMaxPages == 100
\* line 368: max_pages of the other runs
HourlyMaxPages == 5

\* the pages the site serves to a run
RunPages == {<<>>, <<TOld, TFresh>>, <<TEdge, TAncient>>}

\* line 394: max_pages of run_initial_scraping
ForcedMaxPages == 50

\* a run method that starts has nothing of the calls of the run before it
\* but the table and the clock: the locals of scrape_articles_with_pagination
\* and of save_articles_to_db ended with those calls
PreviousRunDropped ==
    /\ save_pc' = "idle"
    /\ articles_data' = <<>>
    /\ attempt' = 0
    /\ i' = 0
    /\ saved_count' = 0
    /\ failed_count' = 0
    /\ save_result' = 0
    /\ db0' = <<>>
    /\ faults' = 0
    /\ session_errors' = 0
    /\ aborted' = FALSE
    /\ repeated' = FALSE
    /\ error_run' = 0
    /\ walk_pc' = "idle"
    /\ max_pages' = 0
    /\ time_filter' = NoFilter
    /\ page_num' = 0
    /\ no_articles_count' = 0
    /\ all_articles' = <<>>
    /\ page_attempt' = 0
    /\ page_articles' = <<>>
    /\ walk_result' = <<>>
    /\ fetched' = <<>>
    /\ raw_page' = <<>>
    /\ page_results' = <<>>
    /\ evaluated' = 0
    /\ failed_run' = 0
    /\ crossed' = 0
    /\ stop_reason' = "none"
    /\ read_at' = <<>>
    /\ page_retries' = 0
    /\ page_sleeps' = <<>>
    /\ page_failures' = 0
    /\ list_missing' = FALSE
    /\ UNCHANGED <<db, now>>

\* lines 346-350, 387-390 and 409-412: a run starts with init_browser()
RunEnter(kind, bound) ==
    /\ run_pc \in {"idle", "returned"}
    /\ browser_pc = "idle"
    /\ runs < bound
    /\ runs' = runs + 1
    /\ run_kind' = kind
    /\ closes' = 0
    /\ run_pc' = "init"
    /\ stored_at_start' = Len(db)
    /\ is_first' = FALSE
    /\ count_failed' = FALSE
    /\ InitEnter(init_default_retries)
    /\ PreviousRunDropped
    /\ UNCHANGED <<job_vars, filter_vars>>

\* lines 344-350
run_scraping == RunEnter("auto", MaxRuns)

\* lines 353-370: is_first_run() chooses the window and the page bound, and
\* the walk starts
SelectMode ==
    /\ run_pc = "init"
    /\ run_kind = "auto"
    /\ browser_pc = "ready"
    /\ \E query_raises \in BOOLEAN :
         /\ count_failed' = query_raises
         /\ is_first' = is_first_run(db, query_raises)
    /\ IF is_first'
         THEN WalkEnter(BulkMaxPages, DaysFilter)
         ELSE WalkEnter(HourlyMaxPages, HourlyFilter)
    /\ run_pc' = "walk"
    /\ init_sleeps' = <<>>
    /\ init_failures' = <<>>
    /\ init_attempt' = 0
    /\ UNCHANGED <<browser_pc, init_max_retries, browser, close_outcome, orphaned>>
    /\ UNCHANGED <<stored_at_start, runs, run_kind, closes>>
    /\ UNCHANGED <<save_vars, job_vars, filter_vars>>

\* lines 204-219 on the pages the site serves
RunPageScraped == page_num <= SitePages /\ PageScrapedFrom(RunPages)

\* lines 372-377: a walk that returned articles is saved
\* lines 233-273: the locals of scrape_articles_with_pagination end with its
\* return; the caller keeps the returned list only
WalkLocalsDropped ==
    /\ page_num' = 0
    /\ no_articles_count' = 0
    /\ all_articles' = <<>>
    /\ page_attempt' = 0
    /\ page_articles' = <<>>
    /\ fetched' = <<>>
    /\ raw_page' = <<>>
    /\ evaluated' = 0
    /\ failed_run' = 0
    /\ crossed' = 0
    /\ stop_reason' = "none"
    /\ read_at' = <<>>
    /\ page_sleeps' = <<>>
    /\ page_failures' = 0
    /\ list_missing' = FALSE
    /\ UNCHANGED <<walk_pc, max_pages, time_filter, walk_result, now,
                   page_results, page_retries>>

SaveWalkResult ==
    /\ run_pc = "walk"
    /\ walk_pc = "returned"
    /\ IF walk_result # <<>>
         THEN /\ Enter(walk_result, FALSE)
              /\ run_pc' = "save"
         ELSE /\ run_pc' = "close"
              /\ UNCHANGED save_vars
    /\ WalkLocalsDropped
    /\ UNCHANGED <<is_first, count_failed, stored_at_start, runs, run_kind, closes>>
    /\ UNCHANGED <<browser_vars, job_vars, filter_vars>>

\* the run has left its try block: init_browser raised, the walk returned
\* nothing, or the save returned
RunBodyEnded ==
    \/ run_pc = "init" /\ browser_pc = "raised"
    \/ run_pc = "save" /\ save_pc = "returned"
    \/ run_pc = "close"

\* lines 379-383, 402-405 and 424-427: the exception of init_browser is
\* logged, and in every case the browser is closed
mut_EndRun ==
    /\ RunBodyEnded
    /\ IF browser_pc = "raised"
         THEN /\ run_pc' = "raised"
              /\ UNCHANGED <<browser, close_outcome, orphaned, closes>>
         ELSE /\ CloseBrowser
              /\ closes' = closes + 1
              /\ run_pc' = "returned"
    /\ browser_pc' = "idle"
    /\ UNCHANGED <<init_max_retries, init_attempt, init_sleeps, init_failures>>
    /\ UNCHANGED <<is_first, count_failed, stored_at_start, runs, run_kind>>
    /\ UNCHANGED <<save_vars, walk_vars, job_vars, filter_vars>>

EndRun ==
    /\ RunBodyEnded
    /\ CloseBrowser
    /\ closes' = closes + 1
    /\ browser_pc' = "idle"
    /\ run_pc' = "returned"
    /\ UNCHANGED <<init_max_retries, init_attempt, init_sleeps, init_failures>>
    /\ UNCHANGED <<is_first, count_failed, stored_at_start, runs, run_kind>>
    /\ UNCHANGED <<save_vars, walk_vars, job_vars, filter_vars>>

\* the dictionaries of a walk have the keys url, title and content, so the
\* save of a run never takes the branch of line 297
NextRun ==
    \/ run_scraping
    \/ InitAttemptSucceeds
    \/ InitAttemptFails
    \/ SelectMode
    \/ AttemptFails
    \/ ListNotFound
    \/ RunPageScraped
    \/ EmptyPage
    \/ NonEmptyPage
    \/ ReturnWalk
    \/ SaveWalkResult
    \/ OpenSession
    \/ SaveArticle
    \/ SkipIntegrityError
    \/ SaveError
    \/ RollbackFails
    \/ EndPass
    \/ Return
    \/ EndRun

SpecRun == Init /\ [][NextRun]_vars

----------------------------------------------------------------------------
\* The three methods that run a whole scraping: run_scraping,
\* run_initial_scraping and run_hourly_scraping

\* lines 344-350: run_scraping as one of the three
run_scraping_entry == RunEnter("auto", MaxEntries)
\* lines 385-390
run_initial_scraping == RunEnter("initial", MaxEntries)
\* lines 407-412
run_hourly_scraping == RunEnter("hourly", MaxEntries)

\* lines 392-396 and 414-418: the walk starts with the window and the page
\* bound of the method, without a look at the table
StartWalk ==
    /\ run_pc = "init"
    /\ run_kind \in {"initial", "hourly"}
    /\ browser_pc = "ready"
    /\ IF run_kind = "initial"
         THEN WalkEnter(ForcedMaxPages, DaysFilter)
         ELSE WalkEnter(HourlyMaxPages, HourlyFilter)
    /\ run_pc' = "walk"
    /\ init_sleeps' = <<>>
    /\ init_failures' = <<>>
    /\ init_attempt' = 0
    /\ UNCHANGED <<browser_pc, init_max_retries, browser, close_outcome, orphaned>>
    /\ UNCHANGED <<is_first, count_failed, stored_at_start, runs, run_kind, closes>>
    /\ UNCHANGED <<save_vars, job_vars, filter_vars>>

NextEntry ==
    \/ run_scraping_entry
    \/ run_initial_scraping
    \/ run_hourly_scraping
    \/ InitAttemptSucceeds
    \/ InitAttemptFails
    \/ SelectMode
    \/ StartWalk
    \/ AttemptFails
    \/ ListNotFound
    \/ RunPageScraped
    \/ EmptyPage
    \/ NonEmptyPage
    \/ ReturnWalk
    \/ SaveWalkResult
    \/ OpenSession
    \/ SaveArticle
    \/ SkipIntegrityError
    \/ SaveError
    \/ RollbackFails
    \/ EndPass
    \/ Return
    \/ EndRun

SpecEntry == Init /\ [][NextEntry]_vars

\* a site that serves a listing, empty or with one fresh teaser, on as many
\* pages as an incremental run may ask for, and none after them
TermPages == {<<>>, <<TFresh>>}
TermPageScraped == page_num <= HourlyMaxPages /\ PageScrapedFrom(TermPages)

\* the steps of a run that has started: every call it awaits returns or
\* raises
RunSteps ==
    \/ InitAttemptSucceeds
    \/ InitAttemptFails
    \/ SelectMode
    \/ AttemptFails
    \/ ListNotFound
    \/ TermPageScraped
    \/ EmptyPage
    \/ NonEmptyPage
    \/ ReturnWalk
    \/ SaveWalkResult
    \/ OpenSession
    \/ SaveArticle
    \/ SkipIntegrityError
    \/ SaveError
    \/ RollbackFails
    \/ EndPass
    \/ Return
    \/ EndRun

NextTerm ==
    \/ run_scraping
    \/ RunSteps

\* run_scraping when none of the calls it awaits hangs
SpecTerm == Init /\ [][NextTerm]_vars /\ WF_vars(RunSteps)

----------------------------------------------------------------------------
\* ScrapingScheduler (app/scheduler/scheduler.py): start, stop,
\* run_scraping_job and its process_article tasks, run_manual_scraping

\* line 154: max_instances of the recurring job
max_instances == 1
\* line 55: days_back of the runs after the first
hourly_days_back == 1
\* line 202: the default of days_back of run_manual_scraping
manual_days_back == 1

\* line 45: the argument days_back of run_scraping_job, None or a number
NoDaysBack == <<>>
DaysBackArgs == {NoDaysBack} \cup {<<d>> : d \in 1..MaxDaysArg}

\* the URL of the k-th article of the site
LinkUrl(k) == "/content/" \o ToString(k)

\* what FTScraper() and get_article_links give a job: a list of 0 to
\* MaxArticles links, here with a URL each of its own, or an exception
Raises == "raises"
LinkResults ==
    {[raised |-> TRUE, links |-> <<>>]}
        \cup {[raised |-> FALSE, links |-> [k \in 1..n |-> LinkUrl(k)]] :
                  n \in 0..MaxArticles}
\* the same, with lists in which links share a URL: of the n links of a
\* list the first a have the first URL and the others the second; the tasks
\* of a job differ by their link alone and run in any order, so that the
\* place of a link in the list does not matter
SharedLinkResults ==
    {[raised |-> TRUE, links |-> <<>>], [raised |-> FALSE, links |-> <<>>]}
        \cup {[raised |-> FALSE,
                links |-> [k \in 1..p[1] |->
                              IF k <= p[2] THEN LinkUrl(1) ELSE LinkUrl(2)]] :
                  p \in {q \in (1..MaxArticles) \X (1..MaxArticles) : q[2] <= q[1]}}
\* the same, with a URL each of its own, of a site of MaxQueue articles
QueueLinkResults ==
    {[raised |-> TRUE, links |-> <<>>]}
        \cup {[raised |-> FALSE, links |-> [k \in 1..n |-> LinkUrl(k)]] :
                  n \in 0..MaxQueue}
\* the same, when the site has one article at most
ShortLinkResults ==
    {[raised |-> TRUE, links |-> <<>>],
     [raised |-> FALSE, links |-> <<>>],
     [raised |-> FALSE, links |-> <<LinkUrl(1)>>]}
\* what scrape_article gives a task: the article, None, or an exception
FetchResults == {"article", "none", Raises}
\* what ArticleProcessor.save_article gives a task: True, False, or an
\* exception
SaveResults == {"saved", "not_saved", Raises}

\* a save that inserts without looking for the URL in the store
mut_save_article(store, url) == {"saved", Raises}

\* what save_article gives for an article with URL url when the store holds
\* the URLs of store: the article is inserted when its URL is new, a
\* duplicate is skipped, and the call may raise
save_article(store, url) ==
    {IF url \in store THEN "not_saved" ELSE "saved", Raises}

\* lines 70 and 90: the scraper a task calls scrape_article on is the one
\* its job made with FTScraper(), the same for every task of the job
ScraperOf(j, k) == j

\* line 101: stats['saved'] += 1
CountSaved(st) == [st EXCEPT !.saved = @ + 1]

\* lines 61-67: the stats of a job that starts
NewStats == [found |-> 0, scraped |-> 0, saved |-> 0, skipped |-> 0, errors |-> 0]

\* line 55: days_back of a job started without argument
DaysBack(initial) == IF initial THEN INITIAL_DAYS_BACK ELSE hourly_days_back

\* lines 54-55: if days_back is None: days_back = ...
DaysBackOf(arg, initial) == IF arg = NoDaysBack THEN DaysBack(initial) ELSE arg[1]

\* a job that leaves the flag as it is
mut_FlagAfterRun(initial) == initial
\* lines 132-133: if self.is_initial_run: self.is_initial_run = False
FlagAfterRun(initial) == IF initial THEN FALSE ELSE initial

\* a recurring job without limit of instances
mut_CanRun(n) == TRUE
\* line 154, max_instances=1: the executor takes a run of the job only while
\* fewer than max_instances runs are in progress
CanRun(n) == n < max_instances

\* a gate that admits every task
mut_CanAcquire(value) == TRUE
\* lines 80 and 84, asyncio.Semaphore: a task enters while the value is
\* positive
CanAcquire(value) == value > 0

\* a task that does not count an article it skips
mut_CountSkipped(st) == st
\* lines 93 and 103: stats['skipped'] += 1
CountSkipped(st) == [st EXCEPT !.skipped = @ + 1]

\* a task that swallows its exception
mut_CountError(st) == st
\* line 107: stats['errors'] += 1
CountError(st) == [st EXCEPT !.errors = @ + 1]

\* line 31: the value of self.max_concurrent
Limit == max_concurrent[1]

\* line 31: self.max_concurrent is read from MAX_CONCURRENT_REQUESTS when a
\* scheduler is made; the variable of the environment is the same for every
\* scheduler of the process. int() gives any integer: a positive limit, 0,
\* or a negative number, which -1 stands for
EnvRead ==
    IF max_concurrent = <<>>
      THEN \E mc \in (0 - 1)..MaxConcurrent : max_concurrent' = <<mc>>
      ELSE UNCHANGED max_concurrent

\* line 80: asyncio.Semaphore(value) raises ValueError for a negative value
SemaphoreRaises(value) == value < 0

\* what the actions of the job leave alone in the other sections
JobFrame == UNCHANGED <<save_vars, walk_vars, browser_vars, run_vars, filter_vars>>

\* lines 45-69: run_scraping_job is entered with the argument arg on a
\* scheduler whose flag is initial
JobEnter(j, arg, initial) ==
    /\ days_back' = [days_back EXCEPT ![j] = DaysBackOf(arg, initial)]
    /\ stats' = [stats EXCEPT ![j] = NewStats]
    /\ job_pc' = [job_pc EXCEPT ![j] = "links"]
    /\ task_pc' = [task_pc EXCEPT ![j] = <<>>]
    /\ outcome' = [outcome EXCEPT ![j] = <<>>]
    /\ semaphore' = [semaphore EXCEPT ![j] = 0]
    /\ link_urls' = [link_urls EXCEPT ![j] = <<>>]
    /\ stored_before' = IF j = StartJob THEN job_store ELSE stored_before

\* what no execution in progress has: the local variables of run_scraping_job
NoLocals ==
    /\ UNCHANGED <<days_back, stats, job_pc, task_pc, outcome, semaphore,
                   link_urls, stored_before>>

\* lines 118-136: the finally block and the end of the execution with the
\* statistics st, by return, by an exception or by CancelledError. For an
\* execution of start(), lines 146-169 follow the first run that returns
\* (the recurring job is added and the scheduler started), and lines 179-186
\* the first run that raises or is cancelled, with which start() ends; its
\* statistics are kept. Another execution gives its result to its caller
\* and its local variables are dropped, and so is the scheduler that
\* run_manual_scraping made for it (line 209): the next one is new
JobLeaves(j, result, st) ==
    /\ is_initial_run' =
          [is_initial_run EXCEPT
              ![j] = IF j = ManualJob THEN TRUE ELSE FlagAfterRun(@)]
    /\ job_pc' = [job_pc EXCEPT ![j] = "idle"]
    /\ IF j = StartJob
         THEN /\ stats' = [stats EXCEPT ![j] = st]
              /\ job_results' = Append(job_results, result)
              /\ in_flight' = in_flight - 1
              /\ IF sched_pc = "first_run"
                   THEN IF result = "returned"
                          THEN sched_pc' = "scheduled" /\ running' = TRUE
                          ELSE sched_pc' = result /\ UNCHANGED running
                   ELSE UNCHANGED <<sched_pc, running>>
              /\ UNCHANGED <<days_back, task_pc, outcome, semaphore, link_urls,
                             stored_before>>
         ELSE /\ days_back' = [days_back EXCEPT ![j] = 0]
              /\ stats' = [stats EXCEPT ![j] = NewStats]
              /\ task_pc' = [task_pc EXCEPT ![j] = <<>>]
              /\ outcome' = [outcome EXCEPT ![j] = <<>>]
              /\ semaphore' = [semaphore EXCEPT ![j] = 0]
              /\ link_urls' = [link_urls EXCEPT ![j] = <<>>]
              /\ UNCHANGED <<job_results, in_flight, sched_pc, running,
                             stored_before>>

\* lines 138-146: start() creates the tables and awaits the first run; a
\* failing init_database ends start with its exception, and a cancellation
\* of start() while it awaits init_database ends it with CancelledError,
\* which line 179 does not catch
start ==
    /\ sched_pc = "new"
    /\ EnvRead
    /\ \/ /\ sched_pc' = "first_run"
          /\ JobEnter(StartJob, NoDaysBack, is_initial_run[StartJob])
          /\ in_flight' = in_flight + 1
          /\ jobs_started' = jobs_started + 1
       \/ /\ \E how \in {"raised", "cancelled"} : sched_pc' = how
          /\ NoLocals
          /\ UNCHANGED <<in_flight, jobs_started>>
    /\ UNCHANGED <<is_initial_run, running, job_results, fires, skips, job_store>>
    /\ JobFrame

\* lines 149-169 and the executor of the scheduler: the interval trigger of
\* the recurring job fires while the scheduler is running; the run is
\* started, or skipped while max_instances runs are in progress
TriggerFires ==
    /\ running
    /\ fires < MaxFires
    /\ fires' = fires + 1
    /\ IF CanRun(in_flight)
         THEN /\ JobEnter(StartJob, NoDaysBack, is_initial_run[StartJob])
              /\ in_flight' = in_flight + 1
              /\ jobs_started' = jobs_started + 1
              /\ UNCHANGED skips
         ELSE /\ skips' = skips + 1
              /\ NoLocals
              /\ UNCHANGED <<in_flight, jobs_started>>
    /\ UNCHANGED <<sched_pc, is_initial_run, max_concurrent, running, job_results,
                   job_store>>
    /\ JobFrame

\* lines 194-198: stop() shuts a running scheduler down, after which the
\* recurring job fires no more; start() stays in its loop
stop ==
    /\ running
    /\ running' = FALSE
    /\ NoLocals
    /\ UNCHANGED <<sched_pc, is_initial_run, max_concurrent, in_flight,
                   job_results, jobs_started, fires, skips, job_store>>
    /\ JobFrame

\* lines 171-177 and 183-186: the loop of start() ends, by KeyboardInterrupt,
\* after which start() returns, or by cancellation, which start() raises;
\* the finally block shuts the scheduler down when it is running
KeepAliveEnds ==
    /\ sched_pc = "scheduled"
    /\ \E how \in {"returned", "cancelled"} : sched_pc' = how
    /\ running' = FALSE
    /\ NoLocals
    /\ UNCHANGED <<is_initial_run, max_concurrent, in_flight, job_results,
                   jobs_started, fires, skips, job_store>>
    /\ JobFrame

\* the model follows one execution beside those of the scheduler at a time
NoneBeside == job_pc[ManualJob] = "idle" /\ job_pc[DirectJob] = "idle"

\* lines 202-211: run_manual_scraping(days_back), with days_back one of
\* days, makes a scheduler of its own, whose flag is True (line 26), creates
\* the tables and runs the job with its argument; a failing init_database
\* ends it before the job, and the scheduler it made is dropped
run_manual_scraping(days) ==
    /\ NoneBeside
    /\ EnvRead
    /\ \/ \E d \in days : JobEnter(ManualJob, <<d>>, is_initial_run[ManualJob])
       \/ NoLocals
    /\ UNCHANGED <<sched_pc, is_initial_run, running, in_flight, job_results,
                   jobs_started, fires, skips, job_store>>
    /\ JobFrame

\* line 45: run_scraping_job(days_back) called, with or without the
\* argument, on a scheduler that start() is not called on: on a new
\* ScrapingScheduler (lines 22-32, fresh), whose flag is True, or on the
\* scheduler of the call of this kind before, whose flag is what that call
\* left
run_scraping_job ==
    /\ NoneBeside
    /\ EnvRead
    /\ \E arg \in DaysBackArgs, fresh \in BOOLEAN :
         /\ is_initial_run' =
               IF fresh THEN [is_initial_run EXCEPT ![DirectJob] = TRUE]
                        ELSE is_initial_run
         /\ JobEnter(DirectJob, arg, is_initial_run'[DirectJob])
    /\ UNCHANGED <<sched_pc, running, in_flight, job_results, jobs_started,
                   fires, skips, job_store>>
    /\ JobFrame

\* lines 70-80 and 113-116: the scraper is entered and get_article_links
\* returns the links, for which the semaphore and the tasks are created; no
\* link ends the job; an exception of the scraper or of get_article_links
\* is counted and raised again. Semaphore() is made after the links are
\* counted: when it raises, the exception leaves the async with block of
\* line 70, whose exit is awaited before lines 113-116 run, and the job
\* stays there with its links counted
GetLinksFrom(j, results) ==
    /\ job_pc[j] = "links"
    /\ stats[j].found = 0
    /\ \E r \in results :
         IF r.raised
           THEN JobLeaves(j, "raised", CountError(stats[j]))
           ELSE IF r.links = <<>>
                  THEN JobLeaves(j, "returned", [stats[j] EXCEPT !.found = 0])
                  ELSE /\ stats' = [stats EXCEPT ![j].found = Len(r.links)]
                       /\ IF SemaphoreRaises(Limit)
                            THEN UNCHANGED <<link_urls, task_pc, outcome,
                                             semaphore, job_pc>>
                            ELSE /\ link_urls' = [link_urls EXCEPT ![j] = r.links]
                                 /\ task_pc' = [task_pc EXCEPT
                                                  ![j] = [k \in 1..Len(r.links) |-> "waiting"]]
                                 /\ outcome' = [outcome EXCEPT
                                                  ![j] = [k \in 1..Len(r.links) |-> "none"]]
                                 /\ semaphore' = [semaphore EXCEPT ![j] = Limit]
                                 /\ job_pc' = [job_pc EXCEPT ![j] = "pool"]
                       /\ UNCHANGED <<sched_pc, is_initial_run, running,
                                      in_flight, job_results, days_back,
                                      stored_before>>
    /\ UNCHANGED <<max_concurrent, jobs_started, fires, skips, job_store>>
    /\ JobFrame

\* lines 70 and 113-136: the exit of the async with block has returned
\* after Semaphore() raised at line 80, with the links counted and no task
\* made: the exception is counted and raised again
ScraperLeft(j) ==
    /\ job_pc[j] = "links"
    /\ stats[j].found > 0
    /\ JobLeaves(j, "raised", CountError(stats[j]))
    /\ UNCHANGED <<max_concurrent, jobs_started, fires, skips, job_store>>
    /\ JobFrame

\* what a task action leaves alone
TaskFrame ==
    /\ UNCHANGED <<sched_pc, is_initial_run, max_concurrent, running,
                   in_flight, job_pc, days_back, job_results, jobs_started,
                   fires, skips, link_urls, stored_before>>
    /\ JobFrame

\* line 111: the gather of the execution was cancelled and has not ended: a
\* task of it has ended without outcome. Every task that has not ended is
\* cancelled with it and goes on to nothing but its end
Cancelling(j) ==
    /\ job_pc[j] = "pool"
    /\ \E k \in 1..Len(task_pc[j]) :
         task_pc[j][k] = "done" /\ outcome[j][k] = "none"

\* line 84: async with semaphore
Acquire(j) ==
    /\ job_pc[j] = "pool"
    /\ ~Cancelling(j)
    /\ \E k \in 1..Len(task_pc[j]) :
         /\ task_pc[j][k] = "waiting"
         /\ CanAcquire(semaphore[j])
         /\ semaphore' = [semaphore EXCEPT ![j] = @ - 1]
         /\ task_pc' = [task_pc EXCEPT ![j][k] = "fetching"]
    /\ UNCHANGED <<stats, outcome, job_store>>
    /\ TaskFrame

\* a task that keeps its slot when it ends on an exception
mut_TaskEnds(j, k, how) ==
    /\ task_pc' = [task_pc EXCEPT ![j][k] = "done"]
    /\ outcome' = [outcome EXCEPT ![j][k] = how]
    /\ semaphore' = [semaphore EXCEPT
                       ![j] = IF how \in {"error_fetch", "error_save"}
                                THEN @ ELSE @ + 1]

\* the task leaves the async with block: the semaphore is released
TaskEnds(j, k, how) ==
    /\ task_pc' = [task_pc EXCEPT ![j][k] = "done"]
    /\ outcome' = [outcome EXCEPT ![j][k] = how]
    /\ semaphore' = [semaphore EXCEPT ![j] = @ + 1]

\* lines 85-96 and 105-107: the delay and scrape_article; None is counted as
\* skipped, an article as scraped, an exception as an error
Fetched(j) ==
    /\ job_pc[j] = "pool"
    /\ ~Cancelling(j)
    /\ \E k \in 1..Len(task_pc[j]), r \in FetchResults :
         /\ task_pc[j][k] = "fetching"
         /\ CASE r = "none" ->
                    /\ stats' = [stats EXCEPT ![j] = CountSkipped(@)]
                    /\ TaskEnds(j, k, "skipped_pre")
              [] r = "article" ->
                    /\ stats' = [stats EXCEPT ![j].scraped = @ + 1]
                    /\ task_pc' = [task_pc EXCEPT ![j][k] = "saving"]
                    /\ UNCHANGED <<outcome, semaphore>>
              [] OTHER ->
                    /\ stats' = [stats EXCEPT ![j] = CountError(@)]
                    /\ TaskEnds(j, k, "error_fetch")
    /\ UNCHANGED job_store
    /\ TaskFrame

\* lines 98-107: save_article; True is counted as saved, False as skipped,
\* an exception as an error
Saved(j) ==
    /\ job_pc[j] = "pool"
    /\ ~Cancelling(j)
    /\ \E k \in 1..Len(task_pc[j]), r \in SaveResults :
         /\ task_pc[j][k] = "saving"
         /\ r \in save_article(job_store, link_urls[j][k])
         /\ CASE r = "saved" ->
                    /\ stats' = [stats EXCEPT ![j] = CountSaved(@)]
                    /\ job_store' = job_store \cup {link_urls[j][k]}
                    /\ TaskEnds(j, k, "saved")
              [] r = "not_saved" ->
                    /\ stats' = [stats EXCEPT ![j] = CountSkipped(@)]
                    /\ UNCHANGED job_store
                    /\ TaskEnds(j, k, "skipped_post")
              [] OTHER ->
                    /\ stats' = [stats EXCEPT ![j] = CountError(@)]
                    /\ UNCHANGED job_store
                    /\ TaskEnds(j, k, "error_save")
    /\ TaskFrame

\* a gather that returns with the first task that ends
mut_GatherReturns(pcs) == \E k \in 1..Len(pcs) : pcs[k] = "done"
\* line 111: await asyncio.gather(*tasks, return_exceptions=True) ends when
\* every task has ended, with or without exception, also when it is
\* cancelled
GatherReturns(pcs) == \A k \in 1..Len(pcs) : pcs[k] = "done"

\* lines 110-111 and 136: gather returns when every task has ended, the
\* scraper is left and the stats are returned
Gathered(j) ==
    /\ job_pc[j] = "pool"
    /\ ~Cancelling(j)
    /\ GatherReturns(task_pc[j])
    /\ JobLeaves(j, "returned", stats[j])
    /\ UNCHANGED <<max_concurrent, jobs_started, fires, skips, job_store>>
    /\ JobFrame

\* who can cancel an execution in progress: the caller that awaits it, for
\* the first run the caller of start() (line 146); a run of the recurring
\* job has no caller in this code, and the executor of the scheduler may
\* cancel it when the scheduler is shut down (lines 185 and 197)
Cancellable(j) == j = StartJob => ~running

\* line 111: a cancellation reaches the execution while it awaits gather,
\* which cancels every task that has not ended. Each of them ends in a step
\* of its own, in an order the calls it is in decide: it leaves the
\* semaphore, which a task that waited for it never held, and counts
\* nothing, as CancelledError is no Exception (line 105); the save it was
\* in may have been committed. The execution stays at line 111 until the
\* last of them has ended
TaskCancelled(j) ==
    /\ job_pc[j] = "pool"
    /\ Cancellable(j)
    /\ \E k \in 1..Len(task_pc[j]) :
         /\ task_pc[j][k] # "done"
         /\ task_pc' = [task_pc EXCEPT ![j][k] = "done"]
         /\ semaphore' = [semaphore EXCEPT
                            ![j] = IF task_pc[j][k] = "waiting" THEN @ ELSE @ + 1]
         /\ \/ UNCHANGED job_store
            \/ /\ task_pc[j][k] = "saving"
               /\ job_store' = job_store \cup {link_urls[j][k]}
    /\ UNCHANGED <<stats, outcome>>
    /\ TaskFrame

\* lines 70, 72, 111 and 113-136: the execution ends by CancelledError, at
\* the call of the scraper it awaits, the exit of the async with block
\* among them, or at gather once every task has ended.
\* Lines 113-116 do not catch it: no error is counted, the finally block
\* runs and run_scraping_job raises it
Cancelled(j) ==
    /\ \/ job_pc[j] = "links"
       \/ job_pc[j] = "pool" /\ GatherReturns(task_pc[j])
    /\ Cancellable(j)
    /\ JobLeaves(j, "cancelled", stats[j])
    /\ UNCHANGED <<max_concurrent, jobs_started, fires, skips, job_store>>
    /\ JobFrame

\* the life of a scheduler, with executions made beside it by
\* run_manual_scraping with a number of days and by run_scraping_job, on a
\* site of one article at most
NextJob ==
    \/ start
    \/ TriggerFires
    \/ stop
    \/ KeepAliveEnds
    \/ run_manual_scraping(1..MaxDaysArg)
    \/ run_scraping_job
    \/ \E j \in Jobs : GetLinksFrom(j, ShortLinkResults)
    \/ \E j \in Jobs : ScraperLeft(j)
    \/ \E j \in Jobs : Acquire(j)
    \/ \E j \in Jobs : Fetched(j)
    \/ \E j \in Jobs : Saved(j)
    \/ \E j \in Jobs : Gathered(j)
    \/ \E j \in Jobs : TaskCancelled(j)
    \/ \E j \in Jobs : Cancelled(j)

SpecJob == Init /\ [][NextJob]_vars

----------------------------------------------------------------------------
\* The first run of run_scraping_job on a site of up to MaxArticles
\* articles, and executions of run_manual_scraping() with its default
\* beside it, on a site of one article at most

NextTasks ==
    \/ start
    \/ stop
    \/ KeepAliveEnds
    \/ run_manual_scraping({manual_days_back})
    \/ GetLinksFrom(StartJob, LinkResults)
    \/ GetLinksFrom(ManualJob, ShortLinkResults)
    \/ \E j \in Jobs : ScraperLeft(j)
    \/ \E j \in Jobs : Acquire(j)
    \/ \E j \in Jobs : Fetched(j)
    \/ \E j \in Jobs : Saved(j)
    \/ \E j \in Jobs : Gathered(j)
    \/ \E j \in Jobs : TaskCancelled(j)
    \/ \E j \in Jobs : Cancelled(j)

SpecTasks == Init /\ [][NextTasks]_vars

----------------------------------------------------------------------------
\* The first run of run_scraping_job on links that may share a URL, and
\* manual executions beside it

NextPool ==
    \/ start
    \/ run_manual_scraping({manual_days_back})
    \/ GetLinksFrom(StartJob, SharedLinkResults)
    \/ GetLinksFrom(ManualJob, ShortLinkResults)
    \/ \E j \in Jobs : ScraperLeft(j)
    \/ \E j \in Jobs : Acquire(j)
    \/ \E j \in Jobs : Fetched(j)
    \/ \E j \in Jobs : Saved(j)
    \/ \E j \in Jobs : Gathered(j)
    \/ \E j \in Jobs : TaskCancelled(j)
    \/ \E j \in Jobs : Cancelled(j)

SpecPool == Init /\ [][NextPool]_vars

\* the steps of a job that has started: every call it awaits returns or
\* raises, the event loop runs every task that can go on, and a
\* cancellation that has begun reaches every task and ends the job
PoolSteps(j) ==
    \/ GetLinksFrom(j, IF j = StartJob THEN QueueLinkResults ELSE ShortLinkResults)
    \/ ScraperLeft(j)
    \/ Acquire(j)
    \/ Fetched(j)
    \/ Saved(j)
    \/ Gathered(j)
    \/ Cancelling(j) /\ TaskCancelled(j)
    \/ Cancelling(j) /\ Cancelled(j)

NextSlots ==
    \/ start
    \/ run_manual_scraping({manual_days_back})
    \/ \E j \in Jobs : PoolSteps(j)
    \/ \E j \in Jobs : TaskCancelled(j)
    \/ \E j \in Jobs : Cancelled(j)

\* the first run of run_scraping_job and manual executions beside it, on
\* links with a URL each of its own, when none of the calls of an execution
\* hangs; whether a caller is cancelled is left open
SpecSlots ==
    Init /\ [][NextSlots]_vars /\ \A j \in Jobs : WF_vars(PoolSteps(j))

----------------------------------------------------------------------------
\* The time filters called on their own

\* the instants a published_at may denote: from before the longest window to
\* after the last clock reading
Instants == (0 - (MaxWindow * HoursPerDay + 1))..(MaxClock + 1)

\* the record of one call
FilterCall(func, published_at, limit, t, result) ==
    [func |-> func, published_at |-> published_at, limit |-> limit,
     now |-> t, result |-> result]

\* lines 89-94: FTScraper._is_article_recent(published_at, hours_limit)
call_is_article_recent ==
    /\ \E published_at \in Instants, hours_limit \in 0..MaxWindow, t \in 0..MaxClock :
          filter_call' = <<FilterCall("_is_article_recent", published_at, hours_limit, t,
                                      _is_article_recent(published_at, hours_limit, t))>>
    /\ UNCHANGED extract_call
    /\ UNCHANGED <<save_vars, walk_vars, browser_vars, run_vars, job_vars>>

\* lines 96-101: FTScraper._is_article_within_days(published_at, days_limit)
call_is_article_within_days ==
    /\ \E published_at \in Instants, days_limit \in 0..MaxWindow, t \in 0..MaxClock :
          filter_call' = <<FilterCall("_is_article_within_days", published_at, days_limit, t,
                                      _is_article_within_days(published_at, days_limit, t))>>
    /\ UNCHANGED extract_call
    /\ UNCHANGED <<save_vars, walk_vars, browser_vars, run_vars, job_vars>>

NextFilter ==
    \/ call_is_article_recent
    \/ call_is_article_within_days

SpecFilter == Init /\ [][NextFilter]_vars

----------------------------------------------------------------------------
\* FTScraper._extract_article_data called on one element

\* the title attributes of the time element: none, a text strptime rejects,
\* and the dates of the teasers of the listing pages
TimeTitles ==
    {NoTimeTitle, BadDate, TFresh.time_title, TEdge.time_title, TOld.time_title,
     TAncient.time_title}

\* the elements: with or without premium label and heading link
ExtractTeasers ==
    {Teaser(premium, heading, "/content/x", "Summary X", time_title) :
        premium \in BOOLEAN, heading \in {"Title X", Absent}, time_title \in TimeTitles}

\* lines 113-163: _extract_article_data(article_element, time_filter_func)
call_extract_article_data ==
    /\ \E el \in ExtractTeasers, f \in TimeFilters, t \in 0..MaxClock :
          extract_call' = <<[el |-> el, f |-> f, now |-> t,
                            result |-> _extract_article_data(el, f, t)]>>
    /\ UNCHANGED filter_call
    /\ UNCHANGED <<save_vars, walk_vars, browser_vars, run_vars, job_vars>>

NextExtract == call_extract_article_data

SpecExtract == Init /\ [][NextExtract]_vars

----------------------------------------------------------------------------
\* Properties of save_articles_to_db

Returned == save_pc = "returned"

\* a dictionary whose insert the table accepts when its URL is new
Insertable(a) == HasRequiredKeys(a) /\ ~ConstructorRaises(a) /\ ~NotNullViolation(a)

\* the row holds the fields of the dictionary
Holds(row, a) == row.url = a.url /\ row.title = a.title /\ row.content = a.content

\* C1: at every moment of any sequence of save_articles_to_db calls, the URLs
\* of the stored articles are pairwise distinct.
C1_UrlsPairwiseDistinct ==
    \A j, k \in 1..Len(db) : j # k => db[j].url # db[k].url

\* a call on a table that held one row has returned, its batch repeats a new
\* URL, and the table holds that URL once
C1_Witness ==
    /\ Returned
    /\ Len(articles_data) = 2
    /\ articles_data[1].url = articles_data[2].url
    /\ Insertable(articles_data[1]) /\ Insertable(articles_data[2])
    /\ articles_data[1].url \in Urls(db)
    /\ Len(db) = 2 /\ Len(db0) = 1

\* the table held, when the call started, every article of the batch that
\* it accepts
StoredBefore ==
    \A k \in 1..Len(articles_data) :
        Insertable(articles_data[k]) => articles_data[k].url \in Urls(db0)

C3_RejectedRowDoesNotAbort ==
    (Returned /\ faults = 0) =>
        \A k \in 1..Len(articles_data) :
            (Insertable(articles_data[k]) /\ articles_data[k].url \notin Urls(db0))
                => articles_data[k].url \in Urls(db)

\* C4: the value returned is the number of rows the call added to the table,
\* the rows it found are kept in place, and in a call without database failure
\* every row added holds the first insertable occurrence of its URL in the
\* batch.
C4_ReturnsRowsInserted ==
    Returned =>
        /\ save_result = Len(db) - Len(db0)
        /\ Len(db0) <= Len(db)
        /\ \A r \in 1..Len(db0) : db[r] = db0[r]
        /\ faults = 0 =>
             \A r \in (Len(db0) + 1)..Len(db) :
                \E j \in 1..Len(articles_data) :
                    /\ Insertable(articles_data[j])
                    /\ Holds(db[r], articles_data[j])
                    /\ \A j2 \in 1..(j - 1) :
                          Insertable(articles_data[j2])
                              => articles_data[j2].url # articles_data[j].url

\* a call on a batch that repeats a new URL has returned 1 after a
\* session-level failure made it run the batch again
C4_Witness ==
    /\ Returned
    /\ session_errors >= 1
    /\ db0 = <<>>
    /\ Len(articles_data) = 2
    /\ articles_data[1].url = articles_data[2].url
    /\ articles_data[1] # articles_data[2]
    /\ save_result = 1
    /\ Len(db) = 1

\* C5: no stored article has an empty title or an empty content.
C5_NoEmptyFieldStored ==
    \A r \in 1..Len(db) : db[r].title # "" /\ db[r].content # ""

----------------------------------------------------------------------------
\* Properties of scrape_articles_with_pagination

WalkEnded == walk_pc \in {"return", "returned"}
WalkReturned == walk_pc = "returned"

\* pages n-2, n-1 and n gave no article
ThreeEmptyUpTo(n) ==
    /\ n >= 3
    /\ n <= Len(page_results)
    /\ \A m \in (n - 2)..n : page_results[m] = <<>>

\* the number of pages without article at the end of rs
RECURSIVE TrailingEmpty(_)
TrailingEmpty(rs) ==
    IF rs = <<>> \/ rs[Len(rs)] # <<>> THEN 0
    ELSE 1 + TrailingEmpty(SubSeq(rs, 1, Len(rs) - 1))

\* C6: once three consecutive pages have given no article, no later page is
\* requested and the walk has left its loop as soon as the third of them is
\* evaluated, also when max_pages is larger.
C6_StopsAfterThreeEmptyPages ==
    \A n \in 1..Len(page_results) :
        ThreeEmptyUpTo(n) =>
            /\ Len(fetched) <= n
            /\ Len(page_results) = n
            /\ evaluated = n => (WalkEnded /\ stop_reason = "exhausted")

\* a walk has returned after pages 2, 3 and 4 gave nothing, page 1 gave
\* articles, and max_pages allowed a fifth page
C6_Witness ==
    /\ WalkReturned
    /\ max_pages > 4
    /\ Len(page_results) = 4
    /\ page_results[1] # <<>>
    /\ ThreeEmptyUpTo(4)
    /\ Len(fetched) = 4

\* C7: between pages no_articles_count is the number of consecutive pages
\* without article at the end of the walk so far, the exhaustion stop is taken
\* only with three such pages in a row, and a walk that never meets three in a
\* row nor the time limit goes on to page max_pages.
C7_CounterResetsOnNonEmptyPage ==
    /\ evaluated = Len(page_results) => no_articles_count = TrailingEmpty(page_results)
    /\ stop_reason = "exhausted" => ThreeEmptyUpTo(Len(page_results))
    /\ (WalkEnded /\ stop_reason \notin {"exhausted", "time_limit"})
          => (stop_reason = "bound" /\ Len(page_results) = max_pages)

\* a walk has gone to page max_pages although three of its pages gave nothing:
\* pages with articles lay between them
C7_Witness ==
    /\ WalkReturned
    /\ stop_reason = "bound"
    /\ max_pages >= 4
    /\ Len(page_results) = max_pages
    /\ Cardinality({n \in 1..Len(page_results) : page_results[n] = <<>>}) >= 3

\* C8: once the time filter has rejected the last element of a page, no later
\* page is requested.
C8_StopsWhenLastItemFailsFilter ==
    crossed # 0 => Len(fetched) <= crossed

\* C9: no page beyond max_pages is requested, and at most max_pages pages are
\* walked.
C9_NeverBeyondMaxPages ==
    /\ Len(fetched) <= max_pages
    /\ \A j \in 1..Len(fetched) : \E n \in 1..max_pages : fetched[j] = PageUrl(n)
    /\ Len(page_results) <= max_pages
    /\ page_num <= max_pages

\* a walk with max_pages = 3 has returned after three pages that all gave
\* articles
C9_Witness ==
    /\ WalkReturned
    /\ max_pages = 3
    /\ stop_reason = "bound"
    /\ Len(fetched) = 3
    /\ \A n \in 1..3 : page_results[n] # <<>>

\* C10: the pages requested are pages 1, 2, 3, ... in this order without gap,
\* and page N+1 is requested only when page N has returned its list and the
\* stop conditions have been evaluated on it.
C10_PagesFetchedInOrder ==
    /\ \A j \in 1..Len(fetched) : fetched[j] = PageUrl(j)
    /\ Len(fetched) <= evaluated + 1
    /\ evaluated <= Len(page_results)
    /\ Len(page_results) <= Len(fetched)

\* page 3 is being retried: pages 1 and 2 have been evaluated before
C10_Witness ==
    /\ walk_pc = "scrape"
    /\ page_attempt >= 1
    /\ page_num = 3
    /\ Len(fetched) = 3
    /\ evaluated = 2

\* the lists of the pages rs, one after the other
RECURSIVE Concat(_)
Concat(rs) ==
    IF rs = <<>> THEN <<>> ELSE rs[1] \o Concat(SubSeq(rs, 2, Len(rs)))

\* C11: the list a walk returns is the concatenation, in page order, of the
\* lists scrape_single_page returned for the pages walked: nothing is dropped,
\* repeated or moved; between pages all_articles is that concatenation for
\* the pages evaluated so far.
C11_ResultIsConcatenation ==
    /\ all_articles = Concat(SubSeq(page_results, 1, evaluated))
    /\ WalkReturned => walk_result = Concat(page_results)

\* a walk has returned after a page with two articles, a page with none and
\* a page with one article that differs from the first of page 1
C11_Witness ==
    /\ WalkReturned
    /\ Len(page_results) = 3
    /\ Len(page_results[1]) = 2
    /\ page_results[2] = <<>>
    /\ Len(page_results[3]) = 1
    /\ page_results[3][1] # page_results[1][1]
    /\ Len(walk_result) = 3

----------------------------------------------------------------------------
\* Properties of scrape_single_page

\* the call has returned its list
PageReturned == walk_pc = "evaluate"

\* element k of the page carries no premium label, has a heading link and
\* passes the filter of the call at the clock read for it
Eligible(k) ==
    /\ ~raw_page[k].premium
    /\ raw_page[k].heading # Absent
    /\ time_filter_func(time_filter, PublishedAt(raw_page[k], read_at[k]), read_at[k])

EligibleItems == {k \in 1..Len(raw_page) : Eligible(k)}

\* the position on the page of the j-th eligible element
NthEligible(j) ==
    CHOOSE k \in EligibleItems : Cardinality({m \in EligibleItems : m < k}) = j - 1

\* C12: the list scrape_single_page returns for a page holds, in page order,
\* one dictionary for each element that is not premium, has a heading link
\* and passes the time filter, and nothing else: elements sharing a URL are
\* all kept, and the number of teasers found is the number of such elements.
C12_PageKeepsEligibleItemsInOrder ==
    PageReturned =>
        /\ Len(page_articles) = Cardinality(EligibleItems)
        /\ \A j \in 1..Len(page_articles) :
              LET el == raw_page[NthEligible(j)]
              IN  /\ page_articles[j].title = el.heading
                  /\ page_articles[j].url = urljoin(base_url, el.href)
                  /\ page_articles[j].published_at
                        = PublishedAt(el, read_at[NthEligible(j)])

\* the page had a premium teaser between two teasers of one URL: both are
\* returned, in page order, and the premium teaser is not
C12_Witness ==
    /\ PageReturned
    /\ raw_page = <<TFresh, TPremium, TFreshAgain>>
    /\ Len(page_articles) = 2
    /\ page_articles[1].url = page_articles[2].url
    /\ page_articles[1].title = "Title A"
    /\ page_articles[2].title = "Title A again"

----------------------------------------------------------------------------
\* Properties of run_scraping

\* the run has chosen its mode and is walking, saving or about to close
ModeSelected == run_pc \in {"walk", "save", "close"}

\* published_at lies in the window of the mode at clock t: the last
\* INITIAL_DAYS_BACK days in bulk mode, the last hour in incremental mode
InWindow(bulk, published_at, t) ==
    IF bulk THEN t - published_at <= INITIAL_DAYS_BACK * HoursPerDay
            ELSE t - published_at <= 1

\* the elements of the page just scraped that lie in the window of the run
\* at the clock read for them
WindowItems ==
    {k \in 1..Len(raw_page) :
        InWindow(is_first, PublishedAt(raw_page[k], read_at[k]), read_at[k])}

NthInWindow(j) ==
    CHOOSE k \in WindowItems : Cardinality({m \in WindowItems : m < k}) = j - 1

\* C13: from every page a run walks it retains exactly the teasers whose
\* published_at lies in its window (the last hour in incremental mode, the
\* last 30 days in bulk mode) when the teaser is read, whatever their place
\* on the page, and the list the walk hands to the save is made of the
\* retained teasers of all its pages.
C13_RetainsExactlyTheWindow ==
    /\ (run_pc = "walk" /\ walk_pc = "evaluate") =>
          /\ Len(page_articles) = Cardinality(WindowItems)
          /\ \A j \in 1..Len(page_articles) :
                /\ page_articles[j].title = raw_page[NthInWindow(j)].heading
                /\ page_articles[j].published_at
                      = PublishedAt(raw_page[NthInWindow(j)], read_at[NthInWindow(j)])
    /\ run_pc \in {"save", "close"} => walk_result = Concat(page_results)

\* an incremental run has scraped a page whose first teaser is five hours
\* old and whose second is fresh: only the second is retained
C13_Witness ==
    /\ run_pc = "walk" /\ walk_pc = "evaluate"
    /\ ~is_first /\ ~count_failed
    /\ raw_page = <<TOld, TFresh>>
    /\ Len(page_articles) = 1
    /\ page_articles[1].title = TFresh.heading

\* C14: a run is in bulk mode (30-day window, page bound 100) exactly when
\* the store held no article when the run started, and in incremental mode
\* (1-hour window, page bound 5) otherwise.
C14_BulkModeExactlyWhenStoreEmpty ==
    ModeSelected =>
        IF stored_at_start = 0
          THEN time_filter = DaysFilter /\ max_pages = BulkMaxPages
          ELSE time_filter = HourlyFilter /\ max_pages = HourlyMaxPages

----------------------------------------------------------------------------
\* Properties of init_browser

\* the attempts the call has started
InitAttempts ==
    IF browser_pc = "attempt" THEN Len(init_failures) + 1
    ELSE IF browser_pc = "ready" /\ run_pc \in {"idle", "init"} THEN Len(init_failures) + 1
    ELSE Len(init_failures)

\* C20: init_browser makes at most max_retries attempts, returns at the first
\* attempt that succeeds, waits min(2^attempt, cap) seconds after failed
\* attempt number attempt (counted from 0), and raises only after max_retries
\* failed attempts.
C20_InitBrowserRetriesWithCappedBackoff ==
    /\ InitAttempts <= init_max_retries
    /\ \A k \in 1..Len(init_sleeps) : init_sleeps[k] = Min(2 ^ (k - 1), BackoffCap)
    /\ browser_pc = "raised" => Len(init_failures) = init_max_retries
    /\ browser_pc = "attempt" => Len(init_sleeps) = Len(init_failures)

----------------------------------------------------------------------------
\* Properties of ScrapingScheduler

\* an execution of the job j is in progress
JobRunning(j) == job_pc[j] # "idle"

\* an execution made by start() or by the recurring job has ended and none
\* is in progress
JobEnded == job_results # <<>> /\ job_pc[StartJob] = "idle"

\* the last execution made by start() has returned
JobReturned == JobEnded /\ job_results[Len(job_results)] = "returned"

\* the last execution made by start() was ended by a cancellation
JobCancelled == JobEnded /\ job_results[Len(job_results)] = "cancelled"

\* the tasks of the job j that ended the way how
Ended(j, how) == {k \in 1..Len(outcome[j]) : outcome[j][k] = how}

\* the tasks of the job j inside the async with block of the semaphore
Inside(j) == {k \in 1..Len(task_pc[j]) : task_pc[j][k] \in {"fetching", "saving"}}

\* C15: once one execution of the job of a scheduler has ended, by return,
\* by exception or by cancellation, the flag of the first run is off for the
\* rest of the process, and every execution after the first works with the
\* window of the incremental mode; the store is not consulted.
C15_LaterRunsAreIncremental ==
    /\ job_results # <<>> => ~is_initial_run[StartJob]
    /\ (JobRunning(StartJob) /\ jobs_started >= 2) =>
          days_back[StartJob] = hourly_days_back
    /\ (JobRunning(StartJob) /\ jobs_started = 1) =>
          days_back[StartJob] = INITIAL_DAYS_BACK

\* the third execution of the scheduler runs in incremental mode after the
\* first returned and the second raised
C15_Witness ==
    /\ jobs_started = 3
    /\ job_pc[StartJob] = "pool"
    /\ job_results = <<"returned", "raised">>
    /\ days_back[StartJob] = hourly_days_back
    /\ ~is_initial_run[StartJob]

\* C16: at most one execution of the job of the scheduler, made by start()
\* or by the recurring job, is in progress; a fire of the trigger during
\* such an execution starts none, then or later (every execution but the
\* first answers one fire); and the scheduler is not running while the
\* first run made by start() is in progress.
C16_AtMostOneExecutionInFlight ==
    /\ in_flight <= 1
    /\ in_flight = (IF JobRunning(StartJob) THEN 1 ELSE 0)
    /\ sched_pc = "first_run" => (~running /\ fires = 0 /\ jobs_started = 1)
    /\ jobs_started >= 1 => jobs_started = 1 + fires - skips

\* the trigger has fired during the second execution, which goes on as the
\* only one of the scheduler
C16_Witness ==
    /\ job_pc[StartJob] = "pool"
    /\ jobs_started = 2
    /\ fires = 2 /\ skips = 1
    /\ in_flight = 1

\* C17: while an execution awaits its tasks, never more than
\* MAX_CONCURRENT_REQUESTS of them are inside the section guarded by its
\* semaphore, whose value is the number of the free slots, whatever the
\* number of links and the order in which the tasks run, end or are
\* cancelled; and no task is inside before or after.
C17_AtMostMaxConcurrentInside ==
    \A j \in Jobs :
        /\ job_pc[j] = "pool" =>
              /\ Cardinality(Inside(j)) <= Limit
              /\ semaphore[j] = Limit - Cardinality(Inside(j))
        /\ job_pc[j] # "pool" => Inside(j) = {}

\* with a limit of 2 and 3 links, two tasks are inside and the third waits
C17_Witness ==
    /\ job_pc[StartJob] = "pool"
    /\ Limit = 2
    /\ Len(task_pc[StartJob]) = 3
    /\ Cardinality(Inside(StartJob)) = 2
    /\ \E k \in 1..3 : task_pc[StartJob][k] = "waiting"

\* the outcomes an exception of scrape_article or save_article gives a task
ErrorOutcomes == {"error_fetch", "error_save"}

\* the task k of the job j ends by an exception in this step
TaskRaises(j, k) ==
    /\ Len(outcome[j]) >= k /\ Len(outcome'[j]) >= k
    /\ outcome[j][k] = "none"
    /\ outcome'[j][k] \in ErrorOutcomes

\* the step leaves the job j and its tasks other than k where they are
SiblingsUntouched(j, k) ==
    /\ job_pc'[j] = job_pc[j]
    /\ job_results' = job_results
    /\ sched_pc' = sched_pc
    /\ stats'[j] = [stats[j] EXCEPT !.errors = @ + 1]
    /\ \A m \in 1..Len(outcome[j]) :
          m # k => (task_pc'[j][m] = task_pc[j][m] /\ outcome'[j][m] = outcome[j][m])

\* C18: an exception of scrape_article or save_article ends only its own
\* task and is counted in errors: the step in which a task raises adds one
\* to errors and leaves the job and the other tasks where they are, errors
\* is the number of tasks that raised, an execution with tasks never ends by
\* an exception of its own, and when it returns its stats every task has
\* reached an outcome.
C18_TaskExceptionIsContained ==
    /\ [](\A j \in Jobs :
            Len(outcome[j]) > 0 =>
                stats[j].errors = Cardinality(UNION {Ended(j, how) : how \in ErrorOutcomes}))
    /\ []((JobEnded /\ Len(outcome[StartJob]) > 0) =>
            /\ job_results[Len(job_results)] # "raised"
            /\ JobReturned =>
                  \A k \in 1..Len(outcome[StartJob]) :
                      task_pc[StartJob][k] = "done" /\ outcome[StartJob][k] # "none")
    /\ [][\A j \in Jobs : \A k \in 1..MaxArticles :
              TaskRaises(j, k) => SiblingsUntouched(j, k)]_vars

\* an execution has returned: its first task raised in scrape_article, its
\* second was saved after that, its third raised in save_article
C18_Witness ==
    /\ JobReturned
    /\ outcome[StartJob] = <<"error_fetch", "saved", "error_save">>
    /\ stats[StartJob].errors = 2 /\ stats[StartJob].saved = 1

\* C19: when an execution has returned, scraped + skipped_pre_scrape = found
\* and saved + skipped_post_scrape + errors = scraped.
C19_CountersConsistent ==
    JobReturned =>
        /\ stats[StartJob].scraped + Cardinality(Ended(StartJob, "skipped_pre"))
              = stats[StartJob].found
        /\ stats[StartJob].saved + Cardinality(Ended(StartJob, "skipped_post"))
              + stats[StartJob].errors
              = stats[StartJob].scraped

----------------------------------------------------------------------------
\* Properties of close_browser

\* C21: close_browser never raises: a failure of self.browser.close() is
\* logged and the call returns, the browser is closed when close() returns,
\* and nothing is done when no browser was created
C21_CloseBrowserNeverRaises ==
    /\ close_outcome # "raised"
    /\ close_outcome = "nothing" <=> (close_outcome # "none" /\ browser = "none")
    /\ close_outcome = "closed" => browser = "closed"
    /\ close_outcome # "none" => browser_pc = "idle"

\* close() raised for a browser that was launched, and close_browser returned
C21_Witness ==
    /\ close_outcome = "logged"
    /\ browser = "open"
    /\ browser_pc = "idle"

----------------------------------------------------------------------------
\* Properties of the three run methods

\* a run has returned to its caller
RunReturned == run_pc = "returned"

\* C22: run_scraping, run_initial_scraping and run_hourly_scraping call
\* close_browser exactly once on every path, not before the work has ended,
\* and never raise to their caller
C22_RunClosesBrowserExactlyOnce ==
    /\ run_pc # "raised"
    /\ RunReturned => closes = 1
    /\ run_pc \in {"init", "walk", "save", "close"} => closes = 0

\* run_hourly_scraping has returned after init_browser raised on its last
\* attempt, and close_browser was called once
C22_Witness ==
    /\ RunReturned
    /\ run_kind = "hourly"
    /\ Len(init_failures) = init_default_retries
    /\ closes = 1

----------------------------------------------------------------------------
\* Properties of ScrapingScheduler.start after a failed run

\* C23: a run of the job that fails fatally does not stop the scheduling: no
\* execution ends by an exception that leaves run_scraping_job, and once
\* the first run has ended start() has gone on to add the recurring job and
\* to start the scheduler, so that the next run is attempted
C23_FatalFailureKeepsScheduling ==
    /\ \A n \in 1..Len(job_results) : job_results[n] # "raised"
    /\ job_results # <<>> => sched_pc \in {"scheduled", "returned", "cancelled"}

----------------------------------------------------------------------------
\* Properties of the retries of scrape_single_page

\* the attempts the call has made and left
PageAttempts == page_failures + (IF PageReturned /\ page_failures < page_retries THEN 1 ELSE 0)

\* every attempt the call was allowed has raised
PageExhausted == PageReturned /\ page_failures = page_retries

\* C24: scrape_single_page makes at most max_retries attempts, sleeps
\* min(2^attempt, 10) seconds after each failed attempt but the last, returns
\* what the first attempt that does not raise extracts, and returns the empty
\* list when every attempt raised
C24_PageRetriesWithCappedBackoff ==
    /\ PageAttempts <= page_retries
    /\ walk_pc = "scrape" => PageAttempts < page_retries
    /\ Len(page_sleeps) = Min(page_failures, IF page_retries = 0 THEN 0 ELSE page_retries - 1)
    /\ \A a \in 1..Len(page_sleeps) : page_sleeps[a] = Min(2 ^ (a - 1), BackoffCap)
    /\ PageExhausted => page_articles = <<>>
    /\ PageReturned /\ ~PageExhausted
         => page_articles = ExtractFrom(raw_page, time_filter, read_at, 1)

\* a call with max_retries 6 returned the articles of its sixth attempt,
\* after five failures and the delays 1, 2, 4, 8 and 10
C24_Witness ==
    /\ PageReturned
    /\ page_retries = 6
    /\ page_failures = 5
    /\ page_sleeps = <<1, 2, 4, 8, 10>>
    /\ page_articles # <<>>

\* C25: a page whose HTML has no listing container is fetched again: the call
\* returns the empty list for it only when it has made all its attempts
C25_MissingListIsRetried ==
    PageReturned /\ list_missing => PageAttempts = page_retries

----------------------------------------------------------------------------
\* Properties of a rejected duplicate

\* the pass is at an article whose URL the table holds
AtStoredUrl == InLoop /\ HasRequiredKeys(Current) /\ UniqueViolation(db, Current)

\* the rows of the table that hold the URL u
RowsOf(rows, u) == {k \in 1..Len(rows) : rows[k].url = u}

\* C26: the step that handles an article whose URL is stored leaves every
\* stored row as it was, and the URL is still held by one row
C26_DuplicateLeavesStoredRowUnchanged ==
    [][AtStoredUrl =>
         /\ db' = db
         /\ Cardinality(RowsOf(db', Current.url)) = 1]_vars

\* a call has gone past a dictionary with the URL of a stored article and
\* another title, and the stored row has the title it was stored with
C26_Witness ==
    /\ save_pc = "loop"
    /\ i = 2
    /\ articles_data[1] = ArtA2
    /\ db = <<Row(<<>>, ArtA)>>
    /\ db0 = db

----------------------------------------------------------------------------
\* Properties of the abort of a batch

\* C27: save_articles_to_db gives up the rest of the batch only after more
\* than 5 low-level save errors in a row, where a committed insert in between
\* starts the run of errors again
C27_AbortsOnlyAfterConsecutiveErrors ==
    aborted => error_run > FailedLimit

----------------------------------------------------------------------------
\* Properties of the article tasks

\* C28: no two tasks of a job that are inside the pool at the same time
\* fetch with the same resource
C28_ActiveTasksOwnTheirPage ==
    \A j \in Jobs :
        \A k, m \in Inside(j) : k # m => ScraperOf(j, k) # ScraperOf(j, m)

\* the tasks whose article was scraped and whose save did not raise
SaveReturned == Ended(StartJob, "saved") \cup Ended(StartJob, "skipped_post")

\* the URLs the tasks of the job inserted
SavedUrls == {link_urls[StartJob][k] : k \in Ended(StartJob, "saved")}

\* the URLs of the tasks whose save returned that were not stored when the
\* job started
NewUrls == {link_urls[StartJob][k] : k \in SaveReturned} \ stored_before

\* C29: the statistics of a job that has returned are a function of the results
\* of its articles (what scrape_article gave for each, and what its save
\* gave), whatever the order the tasks ran in: a URL is counted as saved
\* once, also when several links have it, and never when it was stored
\* before the job; every other article whose save returned is counted as
\* skipped; no increment is lost; and while no other execution writes the
\* store the URLs counted as saved are the new ones
C29_StatsIndependentOfInterleaving ==
    (JobReturned /\ Len(outcome[StartJob]) > 0) =>
        /\ stats[StartJob].found = Len(outcome[StartJob])
        /\ stats[StartJob].scraped =
              Cardinality(SaveReturned \cup Ended(StartJob, "error_save"))
        /\ stats[StartJob].saved = Cardinality(SavedUrls)
        /\ SavedUrls \subseteq NewUrls
        /\ job_store = stored_before \cup SavedUrls => SavedUrls = NewUrls
        /\ stats[StartJob].skipped =
              Cardinality(Ended(StartJob, "skipped_pre"))
                  + Cardinality(SaveReturned) - Cardinality(SavedUrls)
        /\ stats[StartJob].errors =
              Cardinality(Ended(StartJob, "error_fetch")
                              \cup Ended(StartJob, "error_save"))

\* a job has returned whose second and third link have the URL of the
\* first: the third task saved the article and the first, which ended after
\* it, was skipped, and the save of the second raised
C29_Witness ==
    /\ JobReturned
    /\ Len(link_urls[StartJob]) = 3
    /\ link_urls[StartJob][1] = link_urls[StartJob][2]
    /\ link_urls[StartJob][2] = link_urls[StartJob][3]
    /\ outcome[StartJob] = <<"skipped_post", "error_save", "saved">>
    /\ stats[StartJob].saved = 1 /\ stats[StartJob].skipped = 1
    /\ stats[StartJob].errors = 1

----------------------------------------------------------------------------
\* Properties of is_first_run

\* C30: is_first_run returns True when the count of the stored articles is
\* 0, False when an article is stored, and True when the count query raises;
\* it returns in every case, so that the run goes on to its walk, and the
\* table is what it was when the run started
C30_IsFirstRunFollowsCount ==
    (ModeSelected /\ run_kind = "auto") =>
        /\ is_first = (IF count_failed THEN TRUE ELSE stored_at_start = 0)
        /\ run_pc = "walk" => Len(db) = stored_at_start

\* the count query raised on a table with an article, and the run walks as
\* a first run
C30_Witness ==
    /\ run_pc = "walk"
    /\ run_kind = "auto"
    /\ count_failed
    /\ stored_at_start > 0
    /\ is_first

----------------------------------------------------------------------------
\* Properties of the time filters

\* the length in hours of the window of a call
WindowHours(c) ==
    IF c.func = "_is_article_recent" THEN c.limit ELSE c.limit * HoursPerDay

\* C31: a published_at after the clock the filter reads passes
\* _is_article_recent and _is_article_within_days for every window length,
\* and so does a published_at exactly at the clock minus the window
C31_FutureAndBoundaryPass ==
    \A k \in 1..Len(filter_call) :
        LET c == filter_call[k]
        IN  (c.published_at > c.now \/ c.published_at = c.now - WindowHours(c))
                => c.result

\* a call of _is_article_within_days exactly at the limit of a window of
\* days, and it passed
C31_Witness ==
    /\ filter_call # <<>>
    /\ filter_call[1].func = "_is_article_within_days"
    /\ filter_call[1].limit = MaxWindow
    /\ filter_call[1].published_at = filter_call[1].now - MaxWindow * HoursPerDay
    /\ filter_call[1].result

----------------------------------------------------------------------------
\* Properties of the passes of save_articles_to_db

\* C32: a call of save_articles_to_db starts a further pass over the batch
\* only after a session-level failure: the passes started beyond the first
\* are never more than the passes a session-level failure ended, so without
\* such a failure each article gets one insert attempt
C32_RepeatsOnlyAfterSessionFailure ==
    save_pc \in {"session", "loop", "end_pass", "return", "returned"} =>
        attempt <= session_errors

----------------------------------------------------------------------------
\* Properties of the browsers a run launches

\* C33: when run_scraping has returned, every browser its init_browser
\* launched is closed: self.browser is not open, and no browser launched in
\* a failed attempt is left open without a reference
C33_NoLaunchedBrowserLeftOpen ==
    RunReturned => (browser # "open" /\ orphaned = 0)

----------------------------------------------------------------------------
\* Properties of a page that failed on every attempt

\* C34: a page whose fetch raised on all attempts is an empty page to the
\* walk: it returns no item, each such page in a row has incremented the
\* count of consecutive empty pages, the third in a row ends the walk, and
\* the walk then returns the items of the pages before
C34_FailedPageCountsAsEmpty ==
    /\ (walk_pc = "evaluate" /\ page_failures = page_retries) => page_articles = <<>>
    /\ failed_run <= no_articles_count
    /\ failed_run >= EmptyPagesLimit =>
          (walk_pc \in {"return", "returned"} /\ stop_reason = "exhausted")
    /\ (walk_pc = "returned" /\ failed_run >= EmptyPagesLimit) =>
          walk_result = Concat(page_results)

\* a walk that collected articles and then ended on three failed pages
C34_Witness ==
    /\ walk_pc = "returned"
    /\ failed_run = EmptyPagesLimit
    /\ stop_reason = "exhausted"
    /\ walk_result # <<>>

----------------------------------------------------------------------------
\* Properties of an item without a usable publish date

\* the element of a call has no time element with a title, or one whose
\* title strptime rejects
DateUnusable(el) == el.time_title = NoTimeTitle \/ el.time_title = BadDate

\* C35: an element that is not premium and has a heading link, and whose
\* publish date is absent or cannot be parsed, is returned with the current
\* time as published_at under every time filter, the one of bulk mode and
\* the one of incremental mode included
C35_UndatedItemIsAlwaysRetained ==
    \A k \in 1..Len(extract_call) :
        LET c == extract_call[k]
        IN  (~c.el.premium /\ c.el.heading # Absent /\ DateUnusable(c.el)) =>
                /\ c.result # NoArticle
                /\ c.result.published_at = c.now

\* an element with an unparsable date extracted under the filter of
\* incremental mode, and returned
C35_Witness ==
    /\ extract_call # <<>>
    /\ extract_call[1].el.time_title = BadDate
    /\ extract_call[1].f = HourlyFilter
    /\ extract_call[1].result # NoArticle

----------------------------------------------------------------------------
\* Properties of the termination of run_scraping

\* a run is in progress
RunInProgress == run_pc \in {"init", "walk", "save", "close"}

\* the attempts a run has made stay inside their loops
RunLoopsBounded ==
    RunInProgress =>
        /\ init_attempt < init_default_retries
        /\ Len(init_failures) <= init_default_retries
        /\ run_pc \in {"walk", "save", "close"} =>
              /\ page_num <= max_pages
              /\ Len(fetched) <= page_num
              /\ page_attempt < page_max_retries
              /\ page_failures <= page_max_retries
        /\ run_pc = "save" => attempt < max_retries

\* C36: run_scraping makes at most 3 attempts to initialize the browser, at
\* most 3 attempts for each of at most max_pages pages and at most 3 passes
\* over the batch, and when every call it awaits returns or raises a run
\* that has started returns
C36_RunTerminates ==
    /\ []RunLoopsBounded
    /\ RunInProgress ~> RunReturned

\* an incremental run that has returned after a session-level failure and
\* the last pass over its batch
C36_Witness ==
    /\ RunReturned
    /\ ~is_first
    /\ save_pc = "returned"
    /\ attempt = max_retries - 1
    /\ session_errors > 0

----------------------------------------------------------------------------
\* Properties of the end of run_scraping_job

\* C37: run_scraping_job leaves the scraper and returns its statistics only
\* when every article task has ended: outside the pool no task is waiting,
\* fetching or saving, also when the execution was cancelled, whose tasks
\* end one by one before it leaves, and the tasks of an execution that
\* returned have each reached an outcome
C37_JobLeavesAfterEveryTask ==
    /\ \A j \in Jobs :
          job_pc[j] # "pool" =>
              \A k \in 1..Len(task_pc[j]) : task_pc[j][k] = "done"
    /\ JobReturned =>
          \A k \in 1..Len(outcome[StartJob]) : outcome[StartJob][k] # "none"

\* a job of MaxArticles tasks has returned, and one of its tasks had failed
C37_Witness ==
    /\ job_pc[StartJob] = "idle"
    /\ Len(task_pc[StartJob]) = MaxArticles
    /\ job_results # <<>>
    /\ job_results[Len(job_results)] = "returned"
    /\ \E k \in 1..Len(outcome[StartJob]) : outcome[StartJob][k] = "error_fetch"
    /\ \E k \in 1..Len(outcome[StartJob]) : outcome[StartJob][k] = "saved"

----------------------------------------------------------------------------
\* Properties of the sum of the counters

\* the tasks of the job j that have reached an outcome
Counted(j) == {k \in 1..Len(outcome[j]) : outcome[j][k] # "none"}

\* C38: in a job without critical error every link is counted once in
\* exactly one of saved, skipped and errors when its task reaches its
\* outcome, so that a job that has returned has saved + skipped + errors =
\* found and scraped <= found; a task that a cancellation ended is not
\* counted
C38_EveryLinkCountedOnce ==
    /\ \A j \in Jobs :
          Len(task_pc[j]) > 0 =>
              /\ stats[j].saved = Cardinality(Ended(j, "saved"))
              /\ stats[j].skipped =
                    Cardinality(Ended(j, "skipped_pre") \cup Ended(j, "skipped_post"))
              /\ stats[j].errors =
                    Cardinality(Ended(j, "error_fetch") \cup Ended(j, "error_save"))
              /\ stats[j].saved + stats[j].skipped + stats[j].errors
                    = Cardinality(Counted(j))
              /\ stats[j].scraped <= stats[j].found
    /\ JobReturned =>
          /\ stats[StartJob].saved + stats[StartJob].skipped
                + stats[StartJob].errors = stats[StartJob].found
          /\ stats[StartJob].scraped <= stats[StartJob].found

\* a job of MaxArticles links has returned with a link skipped before and
\* one after the scrape, and one that failed
C38_Witness ==
    /\ JobReturned
    /\ stats[StartJob].found = MaxArticles
    /\ Ended(StartJob, "skipped_pre") # {}
    /\ Ended(StartJob, "skipped_post") # {}
    /\ Ended(StartJob, "error_fetch") # {}

----------------------------------------------------------------------------
\* Properties of the concurrency slots

\* every slot of the semaphore is free or held by a task inside the block,
\* and none is held once the tasks have ended
SlotsAccounted ==
    \A j \in Jobs :
        Len(task_pc[j]) > 0 =>
            /\ semaphore[j] >= 0
            /\ semaphore[j] + Cardinality(Inside(j)) = Limit
            /\ job_pc[j] = "idle" => semaphore[j] = Limit

\* the task k of the first run has ended: with its outcome, or without one
\* by the cancellation of the run
TaskOver(k) ==
    /\ Len(task_pc[StartJob]) >= k
    /\ task_pc[StartJob][k] = "done"
    /\ (outcome[StartJob][k] # "none" \/ Cancelling(StartJob) \/ JobCancelled)

\* C39 as stated: every article task of a job gets a slot and reaches its
\* outcome unless the caller of the job is cancelled, whatever
\* MAX_CONCURRENT_REQUESTS is, and the job ends
C39_Original ==
    /\ \A k \in 1..MaxQueue :
          (Len(task_pc[StartJob]) >= k /\ task_pc[StartJob][k] = "waiting")
              ~> TaskOver(k)
    /\ \A j \in Jobs : (job_pc[j] = "pool") ~> (job_pc[j] = "idle")

\* C39: when MAX_CONCURRENT_REQUESTS is 1 or more, every article task of a
\* job gets a slot and reaches its outcome unless the caller of the job is
\* cancelled, and the job ends; for every limit a task gives its slot back
\* when it ends, also on an exception or a cancellation, so that no slot is
\* held after the job and no task waits forever behind a failed one
C39_EveryTaskGetsItsSlot ==
    /\ []SlotsAccounted
    /\ \A k \in 1..MaxQueue :
          (Len(task_pc[StartJob]) >= k /\ task_pc[StartJob][k] = "waiting"
              /\ Limit >= 1)
              ~> TaskOver(k)
    /\ \A j \in Jobs : (job_pc[j] = "pool" /\ Limit >= 1) ~> (job_pc[j] = "idle")

\* a job with one slot and MaxQueue tasks has ended: its first task had
\* failed in the fetch, a task after it was saved, and the slot is free
C39_Witness ==
    /\ JobReturned
    /\ Limit = 1
    /\ Len(task_pc[StartJob]) = MaxQueue
    /\ outcome[StartJob][1] = "error_fetch"
    /\ outcome[StartJob][MaxQueue] = "saved"
    /\ semaphore[StartJob] = Limit

====
